---- MODULE Spec2Model ----
(***************************************************************************)
(* State-machine model of the ESP32 POCSAG pager sketch (main.cpp): the    *)
(* inbox ring buffer and its LittleFS persistence, the software clock, the *)
(* non-blocking notification player and the new-message reminder.          *)
(*                                                                         *)
(* Strings are sequences of one-character strings.  The inbox file is kept *)
(* as the sequence of its lines (what readStringUntil('\n') returns one    *)
(* after the other).  millis() is the variable now; an unsigned long is a  *)
(* pair of 16-bit halves, so that it wraps at 2^32 as in the program.      *)
(***************************************************************************)
EXTENDS Integers, Sequences, FiniteSets, TLC

VARIABLES
  inbox,                   \* PageMessage inbox[INBOX_SIZE]
  inboxCount,              \* number of valid entries
  inboxWriteIndex,         \* next write position (ring buffer)
  inboxCurrent,            \* currently selected inbox message
  inboxTotal,              \* logical count shown to the user
  storageOk,               \* LittleFS mounted
  file,                    \* /inbox.log: [exists, lines]
  pagerTime,               \* PagerTime pagerTime
  lastTimeUpdateMillis,
  timeOffsetMinutes,
  newMessagePending,
  lastReminderBlinkMillis,
  reminderPulseActive,
  reminderPulseEndMillis,
  notifyState,             \* NotifyState notifyState
  led,                     \* level last written to the LED pin
  buzzer,                  \* last tone() request of handleNotify, <<>> if none
  now,                     \* millis()
  pc,                      \* position of loop() between its calls
  hist                     \* history of the run (not program state)

storeVars  == <<inbox, inboxCount, inboxWriteIndex, inboxCurrent, inboxTotal>>
fsVars     == <<storageOk, file>>
clockVars  == <<pagerTime, lastTimeUpdateMillis, timeOffsetMinutes>>
remindVars == <<newMessagePending, lastReminderBlinkMillis,
                reminderPulseActive, reminderPulseEndMillis>>
vars == <<inbox, inboxCount, inboxWriteIndex, inboxCurrent, inboxTotal,
          storageOk, file, pagerTime, lastTimeUpdateMillis, timeOffsetMinutes,
          newMessagePending, lastReminderBlinkMillis, reminderPulseActive,
          reminderPulseEndMillis, notifyState, led, buzzer, now, pc, hist>>

----------------------------------------------------------------------------
(* Program constants *)

INBOX_SIZE == 64
REMINDER_INTERVAL_MS == 30000
REMINDER_PULSE_MS == 50
NOTIFY_STEP_MS == 100
NOTIFY_LED_STEPS == 40

LongMax == 2147483647           \* long: 2^31 - 1
Half    == 65536                \* an unsigned long is kept as two 16-bit halves

Slots == 0 .. (INBOX_SIZE - 1)

\* the unsigned long with value n, 0 <= n <= LongMax
U32(n) == [hi |-> n \div Half, lo |-> n % Half]

\* unsigned long a + d for a number d, modulo 2^32
UAdd(a, d) ==
  LET l == a.lo + (d % Half)
  IN  [hi |-> (a.hi + (d \div Half) + (l \div Half)) % Half, lo |-> l % Half]

\* unsigned long a - b, modulo 2^32
USub(a, b) ==
  LET l == a.lo - b.lo
  IN  [hi |-> (a.hi - b.hi - (IF l < 0 THEN 1 ELSE 0)) % Half, lo |-> l % Half]

\* unsigned comparison a >= b
UGeq(a, b) == a.hi > b.hi \/ (a.hi = b.hi /\ a.lo >= b.lo)

----------------------------------------------------------------------------
(* Characters and Arduino String helpers *)

NL == "\n"
CR == "\r"
SP == " "
BAR == "|"
DASH == "-"

DigitChars == <<"0", "1", "2", "3", "4", "5", "6", "7", "8", "9">>
IsDigit(c) == \E i \in 1..10 : DigitChars[i] = c
DigitVal(c) == (CHOOSE i \in 1..10 : DigitChars[i] = c) - 1
\* isspace(): space, \t, \n, \v, \f, \r (the model's strings use three of them)
IsSpace(c) == c \in {SP, NL, CR, "\t"}

\* Print::print(unsigned long): decimal digits, no padding
RECURSIVE PrintNum(_)
PrintNum(n) ==
  IF n < 10 THEN <<DigitChars[n + 1]>>
  ELSE PrintNum(n \div 10) \o <<DigitChars[(n % 10) + 1]>>

RECURSIVE Zeros(_)
Zeros(k) == IF k <= 0 THEN <<>> ELSE <<"0">> \o Zeros(k - 1)

\* printf "%0<w>d": sign first, then zero padding up to width w
PadNum(n, w) ==
  IF n < 0
    THEN <<DASH>> \o Zeros(w - 1 - Len(PrintNum(-n))) \o PrintNum(-n)
    ELSE Zeros(w - Len(PrintNum(n))) \o PrintNum(n)

\* String::substring(from, to): 0-based, to exclusive, clipped to the length
Substring(s, from, to) ==
  LET t == IF to > Len(s) THEN Len(s) ELSE to
  IN  IF from >= t THEN <<>> ELSE SubSeq(s, from + 1, t)

\* String::indexOf(ch, from): 0-based index of the first ch at or after from
RECURSIVE IndexOf(_, _, _)
IndexOf(s, c, from) ==
  IF from >= Len(s) THEN -1
  ELSE IF s[from + 1] = c THEN from
  ELSE IndexOf(s, c, from + 1)

\* String::trim(): drop leading and trailing isspace() characters
Trim(s) ==
  IF \A i \in 1..Len(s) : IsSpace(s[i]) THEN <<>>
  ELSE LET a == CHOOSE i \in 1..Len(s) :
                  ~IsSpace(s[i]) /\ \A j \in 1..(i - 1) : IsSpace(s[j])
           b == CHOOSE i \in 1..Len(s) :
                  ~IsSpace(s[i]) /\ \A j \in (i + 1)..Len(s) : IsSpace(s[j])
       IN  SubSeq(s, a, b)

\* String::replace(find, with) for single characters
ReplaceChar(s, find, with) ==
  [i \in 1..Len(s) |-> IF s[i] = find THEN with ELSE s[i]]

\* String::toInt() (atol): skip white space, optional sign, then digits up to
\* the first non-digit; no digits gives 0; the result saturates at LONG_MAX
RECURSIVE DigitsValue(_, _, _)
DigitsValue(s, i, acc) ==
  IF i > Len(s) \/ ~IsDigit(s[i]) THEN acc
  ELSE DigitsValue(s, i + 1,
         IF acc > (LongMax - DigitVal(s[i])) \div 10 THEN LongMax
         ELSE acc * 10 + DigitVal(s[i]))

\* the value of the trimmed text: optional sign, then digits
SignedValue(t) ==
  IF Len(t) > 0 /\ t[1] = DASH THEN -DigitsValue(t, 2, 0)
  ELSE IF Len(t) > 0 /\ t[1] = "+" THEN DigitsValue(t, 2, 0)
  ELSE DigitsValue(t, 1, 0)

ToInt(s) == SignedValue(Trim(s))

\* (uint32_t) of a long.  A negative long becomes 2^32 + v, which is beyond
\* the integers TLC computes with; no address field of the model has a sign.
ToUint32(v) == v

\* the lines a character stream splits into at '\n' (the last one unterminated)
RECURSIVE SplitLines(_)
SplitLines(s) ==
  LET p == IndexOf(s, NL, 0)
  IN  IF p < 0 THEN <<s>>
      ELSE <<Substring(s, 0, p)>> \o SplitLines(Substring(s, p + 1, Len(s)))

----------------------------------------------------------------------------
(* Records *)

\* PagerTime pagerTime = {0, 0, 0, 0, 0, 0, false}
NoTime == [year |-> 0, month |-> 0, day |-> 0, hour |-> 0, minute |-> 0,
           second |-> 0, valid |-> FALSE]

\* a PageMessage of the zero-initialised global array
EmptyMessage == [addr |-> 0, ricName |-> <<>>, text |-> <<>>, time |-> NoTime,
                 valid |-> FALSE]

ValidSlots(inb) == {i \in Slots : inb[i].valid}

----------------------------------------------------------------------------
(* Persistence: saveInboxToFS / loadInboxFromFS *)

\* snprintf(timeBuf, 16, "%04d%02d%02d%02d%02d%02d", ...) or '-'
FormatTime(t) ==
  IF t.valid
    THEN Substring(PadNum(t.year, 4) \o PadNum(t.month, 2) \o PadNum(t.day, 2)
                   \o PadNum(t.hour, 2) \o PadNum(t.minute, 2)
                   \o PadNum(t.second, 2), 0, 15)
    ELSE <<DASH>>

\* flatText: '\n' and '\r' replaced by ' '
FlatText(text) == ReplaceChar(ReplaceChar(text, NL, SP), CR, SP)

\* the characters printed for one message: addr|ricName|YYYYMMDDHHMMSS|text\n
FormatRecord(msg) ==
  PrintNum(msg.addr) \o <<BAR>> \o msg.ricName \o <<BAR>> \o FormatTime(msg.time)
  \o <<BAR>> \o FlatText(msg.text) \o <<NL>>

\* the lines those characters add to the file (each ends with '\n')
RecordLines(msg) ==
  LET parts == SplitLines(FormatRecord(msg))
  IN  SubSeq(parts, 1, Len(parts) - 1)

\* first valid slot scanning forward from the write index, -1 if none
OldestIndex(inb, wi) ==
  IF ValidSlots(inb) = {} THEN -1
  ELSE LET d == CHOOSE k \in 0..(INBOX_SIZE - 1) :
                  /\ inb[(wi + k) % INBOX_SIZE].valid
                  /\ \A j \in 0..(k - 1) : ~inb[(wi + j) % INBOX_SIZE].valid
       IN  (wi + d) % INBOX_SIZE

\* the slots the while loop of saveInboxToFS meets going once round the ring
\* from oldestIndex, the invalid ones skipped
ValidFrom(inb, oldest) ==
  SelectSeq([k \in 1..INBOX_SIZE |-> (oldest + k - 1) % INBOX_SIZE],
            LAMBDA i : inb[i].valid)

\* the lines of the records lo..hi the loop prints: it goes round the ring
\* until count reaches inboxCount, so record k is valid slot k of the round,
\* counted on from the first again should inboxCount exceed their number
RECURSIVE SavedLines(_, _, _, _)
SavedLines(inb, order, lo, hi) ==
  IF lo > hi THEN <<>>
  ELSE IF lo = hi THEN RecordLines(inb[order[((lo - 1) % Len(order)) + 1]])
  ELSE SavedLines(inb, order, lo, (lo + hi) \div 2)
       \o SavedLines(inb, order, ((lo + hi) \div 2) + 1, hi)

\* a faulty save loop for comparison: it starts at slot 0, not at the oldest
SaveLoopFromZero(inb, cnt, oldest) == SavedLines(inb, ValidFrom(inb, 0), 1, cnt)

\* while (count < inboxCount) { if (msg.valid) { print; count++ } idx = idx+1 }
SaveLoop(inb, cnt, oldest) == SavedLines(inb, ValidFrom(inb, oldest), 1, cnt)

\* a faulty save for comparison: a failed open leaves an empty file
SaveInboxTruncating(inb, cnt, wi, ok, openOk, f) ==
  IF ~ok THEN f
  ELSE IF ~openOk \/ cnt = 0 \/ OldestIndex(inb, wi) < 0
    THEN [exists |-> TRUE, lines |-> <<>>]
  ELSE [exists |-> TRUE,
        lines  |-> SaveLoop(inb, cnt, OldestIndex(inb, wi))]

\* the file after saveInboxToFS(); openOk: LittleFS.open(.., FILE_WRITE) worked
SaveInboxToFS(inb, cnt, wi, ok, openOk, f) ==
  IF ~ok THEN f
  ELSE IF ~openOk THEN f
  ELSE IF cnt = 0 THEN [exists |-> TRUE, lines |-> <<>>]
  ELSE IF OldestIndex(inb, wi) < 0 THEN [exists |-> TRUE, lines |-> <<>>]
  ELSE [exists |-> TRUE,
        lines  |-> SaveLoop(inb, cnt, OldestIndex(inb, wi))]

\* a faulty restorePushMessage for comparison: the time stamp is cleared
RestorePushStamped(st, msg) ==
  [inbox |-> [st.inbox EXCEPT ![st.wi] =
                [msg EXCEPT !.valid = TRUE, !.time = NoTime]],
   wi    |-> (st.wi + 1) % INBOX_SIZE,
   count |-> IF st.count < INBOX_SIZE THEN st.count + 1 ELSE st.count]

\* a faulty restorePushMessage for comparison: inboxCount is not advanced
RestorePushNoCount(st, msg) ==
  [inbox |-> [st.inbox EXCEPT ![st.wi] = [msg EXCEPT !.valid = TRUE]],
   wi    |-> (st.wi + 1) % INBOX_SIZE,
   count |-> st.count]

\* restorePushMessage on the store st = [inbox, count, wi]
RestorePushMessage(st, msg) ==
  [inbox |-> [st.inbox EXCEPT ![st.wi] = [msg EXCEPT !.valid = TRUE]],
   wi    |-> (st.wi + 1) % INBOX_SIZE,
   count |-> IF st.count < INBOX_SIZE THEN st.count + 1 ELSE st.count]

\* resetInboxMemory: only the valid flags are cleared
ResetInbox(inb) == [i \in Slots |-> [inb[i] EXCEPT !.valid = FALSE]]

\* the time field of a line; junk is what the uninitialised local holds
ParseTime(sTime, junk) ==
  IF sTime # <<DASH>> /\ Len(sTime) >= 14
    THEN [year   |-> ToInt(Substring(sTime, 0, 4)),
          month  |-> ToInt(Substring(sTime, 4, 6)),
          day    |-> ToInt(Substring(sTime, 6, 8)),
          hour   |-> ToInt(Substring(sTime, 8, 10)),
          minute |-> ToInt(Substring(sTime, 10, 12)),
          second |-> ToInt(Substring(sTime, 12, 14)),
          valid  |-> TRUE]
    ELSE [junk EXCEPT !.valid = FALSE]

\* a faulty parse for comparison: the text ends at a fourth delimiter
ParseLineCut(line, junk) ==
  LET p1 == IndexOf(line, BAR, 0)
      p2 == IF p1 >= 0 THEN IndexOf(line, BAR, p1 + 1) ELSE -1
      p3 == IF p2 >= 0 THEN IndexOf(line, BAR, p2 + 1) ELSE -1
      p4 == IF p3 >= 0 THEN IndexOf(line, BAR, p3 + 1) ELSE -1
  IN  IF p1 < 0 \/ p2 < 0 \/ p3 < 0
        THEN [ok |-> FALSE, msg |-> EmptyMessage]
        ELSE [ok  |-> TRUE,
              msg |-> [addr    |-> ToUint32(ToInt(Substring(line, 0, p1))),
                       ricName |-> Substring(line, p1 + 1, p2),
                       text    |-> Substring(line, p3 + 1,
                                             IF p4 >= 0 THEN p4 ELSE Len(line)),
                       time    |-> ParseTime(Substring(line, p2 + 1, p3), junk),
                       valid   |-> TRUE]]

\* one trimmed, non-empty line: [ok, msg]; ok is FALSE for a malformed line
ParseLine(line, junk) ==
  LET p1 == IndexOf(line, BAR, 0)
      p2 == IF p1 >= 0 THEN IndexOf(line, BAR, p1 + 1) ELSE -1
      p3 == IF p2 >= 0 THEN IndexOf(line, BAR, p2 + 1) ELSE -1
  IN  IF p1 < 0 \/ p2 < 0 \/ p3 < 0
        THEN [ok |-> FALSE, msg |-> EmptyMessage]
        ELSE [ok  |-> TRUE,
              msg |-> [addr    |-> ToUint32(ToInt(Substring(line, 0, p1))),
                       ricName |-> Substring(line, p1 + 1, p2),
                       text    |-> Substring(line, p3 + 1, Len(line)),
                       time    |-> ParseTime(Substring(line, p2 + 1, p3), junk),
                       valid   |-> TRUE]]

\* the lines of the file as the loop sees them: line.trim()
TrimmedLines(lines) == [k \in 1..Len(lines) |-> Trim(lines[k])]

\* a faulty selection for comparison: a malformed line ends the load
ParsedLinesAbort(lines, junk) ==
  SelectSeq(TrimmedLines(lines),
            LAMBDA l : /\ Len(l) > 0
                       /\ \A k \in 1..Len(lines) :
                            (Trim(lines[k]) = l) =>
                              \A j \in 1..k : \/ Len(Trim(lines[j])) = 0
                                              \/ ParseLine(Trim(lines[j]), junk).ok)

\* the lines that get past both continue statements, in file order
ParsedLines(lines, junk) ==
  SelectSeq(TrimmedLines(lines),
            LAMBDA l : Len(l) > 0 /\ ParseLine(l, junk).ok)

\* a faulty count for comparison: the load stops one record short of a
\* full inbox
PushCountShort(cnt, n) ==
  IF n = 0 THEN 0
  ELSE IF cnt >= INBOX_SIZE - 2 THEN 1
  ELSE IF n < INBOX_SIZE - 1 - cnt THEN n
  ELSE INBOX_SIZE - 1 - cnt

\* how many of n such lines are pushed before the break at
\* inboxCount >= INBOX_SIZE: every push adds one while inboxCount is below
PushCount(cnt, n) ==
  IF n = 0 THEN 0
  ELSE IF cnt >= INBOX_SIZE - 1 THEN 1
  ELSE IF n < INBOX_SIZE - cnt THEN n
  ELSE INBOX_SIZE - cnt

\* restorePushMessage for the lines lo..hi of these, one after the other
\* (x \in {..} binds the store after the first half as a value, so that it
\* is computed once)
RECURSIVE PushLines(_, _, _, _, _)
PushLines(st, good, junk, lo, hi) ==
  IF lo > hi THEN st
  ELSE IF lo = hi THEN RestorePushMessage(st, ParseLine(good[lo], junk).msg)
  ELSE CHOOSE r \in {PushLines(x, good, junk, ((lo + hi) \div 2) + 1, hi) :
                       x \in {PushLines(st, good, junk, lo, (lo + hi) \div 2)}} :
         TRUE

\* while (f.available()) { readStringUntil; trim; ...; restorePushMessage; }
\* from line i of the file on
LoadLoop(lines, i, st, junk) ==
  CHOOSE r \in {PushLines(x, good, junk, 1, PushCount(x.count, Len(good))) :
                  x \in {st},
                  good \in {ParsedLines(SubSeq(lines, i, Len(lines)), junk)}} :
    TRUE

\* a faulty load for comparison: the selection is left on the write index
LoadInboxNoSelect(st, cur, tot, ok, openOk, f, junk) ==
  IF ~ok THEN [inbox |-> st.inbox, count |-> st.count, wi |-> st.wi,
               current |-> cur, total |-> tot]
  ELSE IF ~f.exists \/ ~openOk
    THEN [inbox |-> ResetInbox(st.inbox), count |-> 0, wi |-> 0,
          current |-> 0, total |-> 0]
  ELSE [inbox   |-> LoadLoop(f.lines, 1, [inbox |-> ResetInbox(st.inbox),
                                          count |-> 0, wi |-> 0], junk).inbox,
        count   |-> LoadLoop(f.lines, 1, [inbox |-> ResetInbox(st.inbox),
                                          count |-> 0, wi |-> 0], junk).count,
        wi      |-> LoadLoop(f.lines, 1, [inbox |-> ResetInbox(st.inbox),
                                          count |-> 0, wi |-> 0], junk).wi,
        total   |-> LoadLoop(f.lines, 1, [inbox |-> ResetInbox(st.inbox),
                                          count |-> 0, wi |-> 0], junk).count,
        current |-> LoadLoop(f.lines, 1, [inbox |-> ResetInbox(st.inbox),
                                          count |-> 0, wi |-> 0], junk).wi]

\* the store [inbox, count, wi, current, total] after loadInboxFromFS();
\* openOk: LittleFS.open(.., FILE_READ) worked
LoadInboxFromFS(st, cur, tot, ok, openOk, f, junk) ==
  LET empty == [inbox |-> ResetInbox(st.inbox), count |-> 0, wi |-> 0,
                current |-> 0, total |-> 0]
  IN  IF ~ok THEN [inbox |-> st.inbox, count |-> st.count, wi |-> st.wi,
                   current |-> cur, total |-> tot]
      ELSE IF ~f.exists \/ ~openOk THEN empty
      ELSE LET r == LoadLoop(f.lines, 1,
                             [inbox |-> empty.inbox, count |-> 0, wi |-> 0], junk)
           IN  [inbox   |-> r.inbox, count |-> r.count, wi |-> r.wi,
                total   |-> r.count,
                current |-> IF r.count > 0
                              THEN (r.wi - 1 + INBOX_SIZE) % INBOX_SIZE
                              ELSE 0]

----------------------------------------------------------------------------
(* Clock: addMinutesToPagerTime / handleTimeMessage / tickPagerClock *)

\* a faulty month table for comparison: February with 29 days
DaysInMonthLeap(m) ==
  IF m \in {4, 6, 9, 11} THEN 30 ELSE IF m = 2 THEN 29 ELSE 31

\* the switch on pagerTime.month (no leap years)
DaysInMonth(m) == IF m \in {4, 6, 9, 11} THEN 30 ELSE IF m = 2 THEN 28 ELSE 31

\* while (totalMin < 0) ... while (totalMin >= 24*60) ...: [totalMin, dayOffset]
RECURSIVE NormalizeMinutes(_, _)
NormalizeMinutes(totalMin, dayOffset) ==
  IF totalMin < 0 THEN NormalizeMinutes(totalMin + 24 * 60, dayOffset - 1)
  ELSE IF totalMin >= 24 * 60
    THEN NormalizeMinutes(totalMin - 24 * 60, dayOffset + 1)
  ELSE [totalMin |-> totalMin, dayOffset |-> dayOffset]

\* the while (true) loop that carries the day into month and year
RECURSIVE AdjustDate(_)
AdjustDate(t) ==
  IF t.day > DaysInMonth(t.month)
    THEN AdjustDate([t EXCEPT
           !.day   = t.day - DaysInMonth(t.month),
           !.month = IF t.month + 1 > 12 THEN 1 ELSE t.month + 1,
           !.year  = IF t.month + 1 > 12 THEN t.year + 1 ELSE t.year])
  ELSE IF t.day <= 0
    THEN LET m == IF t.month - 1 < 1 THEN 12 ELSE t.month - 1
         IN  AdjustDate([t EXCEPT
               !.month = m,
               !.year  = IF t.month - 1 < 1 THEN t.year - 1 ELSE t.year,
               !.day   = t.day + DaysInMonth(m)])
  ELSE t

AddMinutesToPagerTime(t, deltaMin) ==
  IF ~t.valid \/ deltaMin = 0 THEN t
  ELSE LET n  == NormalizeMinutes(t.hour * 60 + t.minute + deltaMin, 0)
           t1 == [t EXCEPT !.hour   = n.totalMin \div 60,
                           !.minute = n.totalMin % 60]
       IN  IF n.dayOffset # 0
             THEN AdjustDate([t1 EXCEPT !.day = t1.day + n.dayOffset])
             ELSE t1

\* String::indexOf(const String&): 0-based index of the first occurrence
IndexOfStr(s, pat) ==
  LET hits == {i \in 1..(Len(s) - Len(pat) + 1) :
                 SubSeq(s, i, i + Len(pat) - 1) = pat}
  IN  IF hits = {} THEN -1
      ELSE (CHOOSE i \in hits : \A j \in hits : i <= j) - 1

TimePattern == <<"Y","Y","Y","Y","M","M","D","D","H","H","M","M","S","S">>

\* does handleTimeMessage(addr, str) set the clock?
IsTimeMessage(addr, str) ==
  /\ addr \in {216, 224}
  /\ IndexOfStr(str, TimePattern) >= 0
  /\ Len(str) >= IndexOfStr(str, TimePattern) + 14 + 12

\* the UTC value handleTimeMessage reads from the 12 digits after the pattern
ParsedUtc(str) ==
  LET idx == IndexOfStr(str, TimePattern)
      d   == Substring(str, idx + 14, idx + 14 + 12)
  IN  [year   |-> 2000 + ToInt(Substring(d, 0, 2)),
       month  |-> ToInt(Substring(d, 2, 4)),
       day    |-> ToInt(Substring(d, 4, 6)),
       hour   |-> ToInt(Substring(d, 6, 8)),
       minute |-> ToInt(Substring(d, 8, 10)),
       second |-> ToInt(Substring(d, 10, 12)),
       valid  |-> TRUE]

\* pagerTime after handleTimeMessage(addr, str)
HandleTimeMessage(t, addr, str, offset) ==
  IF IsTimeMessage(addr, str)
    THEN AddMinutesToPagerTime(ParsedUtc(str), offset)
    ELSE t

\* a faulty month length for comparison: every month has 31 days
TickDaysAll31(m) == 31

\* the switch of tickPagerClock: int daysInMonth
TickDaysInMonth(m) ==
  IF m \in {4, 6, 9, 11} THEN 30
  ELSE IF m = 2 THEN 28
  ELSE 31

\* a faulty second for comparison: the carries come one unit late
TickSecondLateCarry(t) ==
  LET s1 == [t EXCEPT !.second = t.second + 1]
      s2 == IF s1.second > 60
              THEN [s1 EXCEPT !.second = 0, !.minute = s1.minute + 1] ELSE s1
  IN  IF s2.minute > 60
        THEN [s2 EXCEPT !.minute = 0, !.hour = (s2.hour + 1) % 24] ELSE s2

\* one pass of the body of while (now - lastTimeUpdateMillis >= 1000)
TickSecond(t) ==
  LET s1 == [t EXCEPT !.second = t.second + 1]
      s2 == IF s1.second >= 60
              THEN [s1 EXCEPT !.second = 0, !.minute = s1.minute + 1] ELSE s1
      s3 == IF s2.minute >= 60
              THEN [s2 EXCEPT !.minute = 0, !.hour = s2.hour + 1] ELSE s2
  IN  IF s3.hour >= 24
        THEN LET s4 == [s3 EXCEPT !.hour = 0, !.day = s3.day + 1]
             IN  IF s4.day > TickDaysInMonth(s4.month)
                   THEN [s4 EXCEPT
                           !.day   = 1,
                           !.month = IF s4.month + 1 > 12 THEN 1 ELSE s4.month + 1,
                           !.year  = IF s4.month + 1 > 12 THEN s4.year + 1
                                     ELSE s4.year]
                   ELSE s4
        ELSE s3

\* a faulty catch-up for comparison: the rest below one second is dropped
RECURSIVE TickLoopNoCarry(_, _, _)
TickLoopNoCarry(t, last, n) ==
  IF UGeq(USub(n, last), U32(1000))
    THEN TickLoopNoCarry(TickSecond(t), UAdd(last, 1000), n)
    ELSE [time |-> t, last |-> n]

\* tickPagerClock: [time, last] after catching up the missing seconds
RECURSIVE TickLoop(_, _, _)
TickLoop(t, last, n) ==
  IF UGeq(USub(n, last), U32(1000))
    THEN TickLoop(TickSecond(t), UAdd(last, 1000), n)
    ELSE [time |-> t, last |-> last]

\* tickPagerClock: how often the body of the while loop runs
RECURSIVE TickCount(_, _)
TickCount(last, n) ==
  IF UGeq(USub(n, last), U32(1000))
    THEN 1 + TickCount(UAdd(last, 1000), n)
    ELSE 0

----------------------------------------------------------------------------
(* Inbox browsing: displayInbox / inboxShowNext / inboxShowPrev *)

\* displayInbox: make sure inboxCurrent points to a valid message
RECURSIVE RepairScan(_, _, _)
RepairScan(inb, i, cur) ==
  IF i < 0 THEN cur
  ELSE IF inb[i].valid THEN i
  ELSE RepairScan(inb, i - 1, cur)

DisplayInbox(inb, cnt, cur) ==
  IF cnt = 0 THEN cur
  ELSE IF cur < 0 \/ cur >= INBOX_SIZE \/ ~inb[cur].valid
    THEN RepairScan(inb, INBOX_SIZE - 1, cur)
  ELSE cur

\* for (i = 0; i < INBOX_SIZE; ++i) { idx = (idx + 1) % INBOX_SIZE; ... }
RECURSIVE NextScan(_, _, _, _)
NextScan(inb, idx, i, cur) ==
  IF i >= INBOX_SIZE THEN cur
  ELSE LET nidx == (idx + 1) % INBOX_SIZE
       IN  IF inb[nidx].valid THEN nidx ELSE NextScan(inb, nidx, i + 1, cur)

\* for (i = 0; i < INBOX_SIZE; ++i) { idx = (idx - 1 + INBOX_SIZE) % INBOX_SIZE; ... }
RECURSIVE PrevScan(_, _, _, _)
PrevScan(inb, idx, i, cur) ==
  IF i >= INBOX_SIZE THEN cur
  ELSE LET nidx == (idx - 1 + INBOX_SIZE) % INBOX_SIZE
       IN  IF inb[nidx].valid THEN nidx ELSE PrevScan(inb, nidx, i + 1, cur)

\* a faulty inboxShowNext for comparison: the scan starts one slot too far
InboxShowNextSkip(inb, cnt, cur) ==
  IF cnt = 0 THEN cur
  ELSE DisplayInbox(inb, cnt, NextScan(inb, (cur + 1) % INBOX_SIZE, 0, cur))

\* inboxCurrent after inboxShowNext()
InboxShowNext(inb, cnt, cur) ==
  IF cnt = 0 THEN cur
  ELSE DisplayInbox(inb, cnt, NextScan(inb, cur, 0, cur))

\* a faulty inboxShowPrev for comparison: no wrap from slot 0 to the last slot
InboxShowPrevNoWrap(inb, cnt, cur) ==
  IF cnt = 0 THEN cur
  ELSE DisplayInbox(inb, cnt, IF cur = 0 THEN cur ELSE PrevScan(inb, cur, 0, cur))

\* inboxCurrent after inboxShowPrev()
InboxShowPrev(inb, cnt, cur) ==
  IF cnt = 0 THEN cur
  ELSE DisplayInbox(inb, cnt, PrevScan(inb, cur, 0, cur))

\* drawClockBar: the x of "x/n"
RECURSIVE LogicalScan(_, _, _, _)
LogicalScan(inb, cur, i, seen) ==
  IF i >= INBOX_SIZE THEN 0
  ELSE IF ~inb[i].valid THEN LogicalScan(inb, cur, i + 1, seen)
  ELSE IF i = cur THEN seen + 1
  ELSE LogicalScan(inb, cur, i + 1, seen + 1)

LogicalPos(inb, cur) == LogicalScan(inb, cur, 0, 0)

----------------------------------------------------------------------------
(* Configuration (config.h): the RIC list and the ring tones *)

NOTENUMBER == 6

\* ric[]: ricvalue, name, ringtype
RicTable == {[ricvalue |-> 8,    name |-> <<"n">>,      ringtype |-> 0],
             [ricvalue |-> 1040, name |-> <<"d", "x">>, ringtype |-> 1]}

RicOf(addr) == CHOOSE r \in RicTable : r.ricvalue = addr
IsMyRic(addr) == \E r \in RicTable : r.ricvalue = addr

----------------------------------------------------------------------------
(* storeMessage / ringBuzzer *)

\* a faulty storeMessage for comparison: inboxCount grows beyond INBOX_SIZE
StoreMessageUncapped(inb, cnt, wi, t, addr, ricName, text) ==
  [inbox   |-> [inb EXCEPT ![wi] =
                  [addr |-> addr, ricName |-> ricName, text |-> text,
                   time |-> IF t.valid THEN t ELSE NoTime, valid |-> TRUE]],
   wi      |-> (wi + 1) % INBOX_SIZE,
   count   |-> cnt + 1,
   total   |-> cnt + 1,
   current |-> wi]

\* a faulty storeMessage for comparison: a full inbox loses its newest message
StoreMessageOverNewest(inb, cnt, wi, t, addr, ricName, text) ==
  LET ncnt == IF cnt < INBOX_SIZE THEN cnt + 1 ELSE cnt
      at   == IF cnt < INBOX_SIZE THEN wi ELSE (wi - 1 + INBOX_SIZE) % INBOX_SIZE
  IN  [inbox   |-> [inb EXCEPT ![at] =
                      [addr |-> addr, ricName |-> ricName, text |-> text,
                       time |-> IF t.valid THEN t ELSE NoTime, valid |-> TRUE]],
       wi      |-> (wi + 1) % INBOX_SIZE,
       count   |-> ncnt,
       total   |-> ncnt,
       current |-> at]

\* a faulty storeMessage for comparison: the selection stays where it was
\* unless the inbox was empty
StoreMessageKeepSel(inb, cnt, wi, t, addr, ricName, text) ==
  [inbox   |-> [inb EXCEPT ![wi] =
                  [addr |-> addr, ricName |-> ricName, text |-> text,
                   time |-> IF t.valid THEN t ELSE NoTime, valid |-> TRUE]],
   wi      |-> (wi + 1) % INBOX_SIZE,
   count   |-> IF cnt < INBOX_SIZE THEN cnt + 1 ELSE cnt,
   total   |-> IF cnt < INBOX_SIZE THEN cnt + 1 ELSE cnt,
   current |-> IF cnt = 0 THEN wi ELSE (wi - 1 + INBOX_SIZE) % INBOX_SIZE]

\* a faulty storeMessage for comparison: the record is never stamped
StoreMessageNoStamp(inb, cnt, wi, t, addr, ricName, text) ==
  [inbox   |-> [inb EXCEPT ![wi] =
                  [addr |-> addr, ricName |-> ricName, text |-> text,
                   time |-> NoTime, valid |-> TRUE]],
   wi      |-> (wi + 1) % INBOX_SIZE,
   count   |-> IF cnt < INBOX_SIZE THEN cnt + 1 ELSE cnt,
   total   |-> IF cnt < INBOX_SIZE THEN cnt + 1 ELSE cnt,
   current |-> wi]

\* the store [inbox, count, wi, current, total] after storeMessage(addr, ricName, text)
StoreMessage(inb, cnt, wi, t, addr, ricName, text) ==
  LET ncnt == IF cnt < INBOX_SIZE THEN cnt + 1 ELSE cnt
  IN  [inbox   |-> [inb EXCEPT ![wi] =
                      [addr |-> addr, ricName |-> ricName, text |-> text,
                       time |-> IF t.valid THEN t ELSE NoTime, valid |-> TRUE]],
       wi      |-> (wi + 1) % INBOX_SIZE,
       count   |-> ncnt,
       total   |-> ncnt,
       current |-> wi]

\* a faulty ringBuzzer for comparison: the pattern starts at its second step
RingBuzzerSkip(ringToneChoice, n) ==
  [active |-> TRUE, lastStepMillis |-> n, step |-> 1,
   ringToneChoice |-> ringToneChoice]

\* notifyState after ringBuzzer(ringToneChoice)
RingBuzzer(ringToneChoice, n) ==
  [active |-> TRUE, lastStepMillis |-> n, step |-> 0,
   ringToneChoice |-> ringToneChoice]

\* NotifyState notifyState = { false, 0, 0, 0 }
NotifyIdle == [active |-> FALSE, lastStepMillis |-> U32(0), step |-> 0,
               ringToneChoice |-> 0]

\* a faulty test for comparison: the step interval is not waited for
NotifyDueAlways(ns, n) == ns.active

\* does this handleNotify() call get past the two early returns?
NotifyDue(ns, n) ==
  ns.active /\ UGeq(USub(n, ns.lastStepMillis), U32(NOTIFY_STEP_MS))

\* a faulty step for comparison: the player stops one step early
NotifyStepEarly(ns, n) ==
  IF ns.step < NOTIFY_LED_STEPS - 1
    THEN [ns EXCEPT !.lastStepMillis = n, !.step = ns.step + 1]
    ELSE [ns EXCEPT !.lastStepMillis = n, !.active = FALSE]

\* notifyState after a handleNotify() call that is due
NotifyStep(ns, n) ==
  IF ns.step < NOTIFY_LED_STEPS
    THEN [ns EXCEPT !.lastStepMillis = n, !.step = ns.step + 1]
    ELSE [ns EXCEPT !.lastStepMillis = n, !.active = FALSE]

\* a faulty LED level for comparison: the last call leaves the LED as the
\* blink pattern would
NotifyLedNoFinalLow(ns) == (ns.step % 2) = 0

\* the LED level handleNotify() writes when it is due
NotifyLed(ns) ==
  IF ns.step < NOTIFY_LED_STEPS THEN (ns.step % 2) = 0 ELSE FALSE

\* the tone handleNotify() requests when it is due
NotifyTone(ns) ==
  IF ns.step < NOTIFY_LED_STEPS /\ ns.step < NOTENUMBER
    THEN <<ns.ringToneChoice, ns.step>> ELSE <<>>

----------------------------------------------------------------------------
(* History of the run: counters the properties and the bounds refer to *)

HistInit ==
  [inserts   |-> 0,                    \* storeMessage calls so far
   pushes    |-> 0,                    \* storeMessage + restorePushMessage calls
   born      |-> [i \in Slots |-> 0],  \* push number that last wrote each slot
   nIns      |-> 0,                    \* storeMessage calls since the last reset
   nRest     |-> 0,                    \* restorePushMessage calls since then
   lastOp    |-> "none",               \* the last handler that ran
   selBefore |-> 0,                    \* inboxCurrent before that handler
   openFails |-> 0,                    \* failed LittleFS.open calls
   timeSets  |-> 0,                    \* time messages taken
   drops     |-> 0,                    \* messages that changed nothing
   utc       |-> NoTime,               \* UTC value of the last time message
   browse    |-> 0,                    \* button presses since the last message
   due       |-> FALSE,                \* the last handleNotify call was due
   passes    |-> 0,                    \* loop() passes started
   short     |-> 0,                    \* loop passes that came early
   long      |-> 0,                    \* loop passes that came late
   steps     |-> 0,                    \* due handleNotify calls since ringBuzzer
   ackPasses |-> 0,                    \* reminder calls since the last button
                                       \* press that found nothing pending (0..2)
   setTime   |-> NoTime,               \* pagerTime as the last time message set it
   elapsed   |-> 0,                    \* milliseconds passed since that message
   ticks     |-> 0,                    \* seconds tickPagerClock added since then
   fresh     |-> FALSE,                \* no time passed since the clock was last
                                       \* set or ticked
   moved     |-> FALSE,                \* the last storeMessage found the selection
                                       \* away from the newest record, and no
                                       \* button was pressed since
   sinceBlink |-> 0,                   \* milliseconds passed since the last
                                       \* storeMessage or pulse start
   sincePulse |-> 0,                   \* milliseconds passed since the last
                                       \* pulse start
   sinceStep  |-> 0]                   \* milliseconds passed since the last
                                       \* ringBuzzer or step of the player

----------------------------------------------------------------------------
(* Actions: setup() and the handlers loop() calls *)

\* setup(): LED low, storageInit() with its loadInboxFromFS().
\* mount: "ok" (LittleFS.begin() worked), "formatted" (only begin(true) did,
\* which erases the partition) or "failed"; junk: the uninitialised time fields.
Setup(mount, openOk, junk) ==
  /\ pc = "setup"
  /\ LET ok == mount # "failed"
         f  == IF mount = "formatted" THEN [exists |-> FALSE, lines |-> <<>>]
               ELSE file
         r  == LoadInboxFromFS(
                 [inbox |-> inbox, count |-> inboxCount, wi |-> inboxWriteIndex],
                 inboxCurrent, inboxTotal, ok, openOk, f, junk)
     IN  /\ storageOk' = ok
         /\ file' = f
         /\ inbox' = r.inbox
         /\ inboxCount' = r.count
         /\ inboxWriteIndex' = r.wi
         /\ inboxCurrent' = r.current
         /\ inboxTotal' = r.total
         /\ hist' = [hist EXCEPT
              !.pushes    = hist.pushes + r.count,
              !.born      = [i \in Slots |->
                               IF ok /\ i < r.count THEN hist.pushes + i + 1
                               ELSE hist.born[i]],
              !.nIns      = IF ok THEN 0 ELSE hist.nIns,
              !.nRest     = IF ok THEN r.count ELSE hist.nRest,
              !.openFails = IF ok /\ f.exists /\ ~openOk
                              THEN hist.openFails + 1 ELSE hist.openFails,
              !.lastOp    = "setup",
              !.browse    = 0,
              !.selBefore = inboxCurrent]
  /\ led' = FALSE
  /\ pc' = "elapse"
  /\ UNCHANGED <<clockVars, remindVars, notifyState, buzzer, now>>

\* loop(): pager.readData() returned (addr, str): handleTimeMessage, then for
\* a RIC of the list storeMessage, displayPage and ringBuzzer.
\* openOk: LittleFS.open(.., FILE_WRITE) worked in saveInboxToFS.
Receive(addr, str, openOk) ==
  /\ pc # "setup"
  /\ LET t == HandleTimeMessage(pagerTime, addr, str, timeOffsetMinutes)
         r == StoreMessage(inbox, inboxCount, inboxWriteIndex, t, addr,
                           RicOf(addr).name, str)
     IN  /\ pagerTime' = t
         /\ lastTimeUpdateMillis' =
              IF IsTimeMessage(addr, str) THEN now ELSE lastTimeUpdateMillis
         /\ IF IsMyRic(addr)
              THEN /\ inbox' = r.inbox
                   /\ inboxCount' = r.count
                   /\ inboxWriteIndex' = r.wi
                   /\ inboxCurrent' = r.current
                   /\ inboxTotal' = r.total
                   /\ file' = SaveInboxToFS(r.inbox, r.count, r.wi, storageOk,
                                            openOk, file)
                   /\ newMessagePending' = TRUE
                   /\ lastReminderBlinkMillis' = now
                   /\ notifyState' = RingBuzzer(RicOf(addr).ringtype, now)
              ELSE UNCHANGED <<storeVars, file, newMessagePending,
                               lastReminderBlinkMillis, notifyState>>
         /\ hist' = [hist EXCEPT
              !.inserts   = IF IsMyRic(addr) THEN @ + 1 ELSE @,
              !.pushes    = IF IsMyRic(addr) THEN @ + 1 ELSE @,
              !.born      = IF IsMyRic(addr)
                              THEN [@ EXCEPT ![inboxWriteIndex] = hist.pushes + 1]
                              ELSE @,
              !.nIns      = IF IsMyRic(addr) THEN @ + 1 ELSE @,
              !.openFails = IF IsMyRic(addr) /\ storageOk /\ ~openOk
                              THEN @ + 1 ELSE @,
              !.timeSets  = IF IsTimeMessage(addr, str) THEN @ + 1 ELSE @,
              !.drops     = IF ~IsMyRic(addr) /\ ~IsTimeMessage(addr, str)
                              THEN @ + 1 ELSE @,
              !.utc       = IF IsTimeMessage(addr, str) THEN ParsedUtc(str) ELSE @,
              !.setTime   = IF IsTimeMessage(addr, str) THEN t ELSE @,
              !.elapsed   = IF IsTimeMessage(addr, str) THEN 0 ELSE @,
              !.ticks     = IF IsTimeMessage(addr, str) THEN 0 ELSE @,
              !.fresh     = IF IsTimeMessage(addr, str) THEN TRUE ELSE @,
              !.steps     = IF IsMyRic(addr) THEN 0 ELSE @,
              !.lastOp    = IF IsMyRic(addr) THEN "insert"
                            ELSE IF IsTimeMessage(addr, str) THEN "time"
                            ELSE "drop",
              !.browse    = IF IsMyRic(addr) THEN 0 ELSE @,
              !.sinceBlink = IF IsMyRic(addr) THEN 0 ELSE @,
              !.sinceStep  = IF IsMyRic(addr) THEN 0 ELSE @,
              !.selBefore = IF IsMyRic(addr) THEN r.current ELSE inboxCurrent,
              !.moved     = IF IsMyRic(addr)
                              THEN /\ inboxCount > 0
                                   /\ inboxCurrent # (inboxWriteIndex - 1
                                                       + INBOX_SIZE) % INBOX_SIZE
                              ELSE @]
  /\ UNCHANGED <<storageOk, timeOffsetMinutes, reminderPulseActive,
                 reminderPulseEndMillis, led, buzzer, now>>

\* onUpPressed(): acknowledge, then inboxShowPrev()
OnUpPressed ==
  /\ pc # "setup"
  /\ newMessagePending' = FALSE
  /\ inboxCurrent' = InboxShowPrev(inbox, inboxCount, inboxCurrent)
  /\ hist' = [hist EXCEPT
       !.browse    = @ + 1,
       !.ackPasses = 0,
       !.moved     = FALSE,
       !.lastOp    = IF hist.lastOp = "next" THEN "nextprev" ELSE "prev",
       !.selBefore = IF hist.lastOp = "next" THEN hist.selBefore
                     ELSE inboxCurrent]
  /\ UNCHANGED <<inbox, inboxCount, inboxWriteIndex, inboxTotal, fsVars,
                 clockVars, lastReminderBlinkMillis, reminderPulseActive,
                 reminderPulseEndMillis, notifyState, led, buzzer, now>>

\* onDownPressed(): acknowledge, then inboxShowNext()
OnDownPressed ==
  /\ pc # "setup"
  /\ newMessagePending' = FALSE
  /\ inboxCurrent' = InboxShowNext(inbox, inboxCount, inboxCurrent)
  /\ hist' = [hist EXCEPT !.browse = @ + 1, !.lastOp = "next",
                           !.selBefore = inboxCurrent, !.ackPasses = 0,
                           !.moved = FALSE]
  /\ UNCHANGED <<inbox, inboxCount, inboxWriteIndex, inboxTotal, fsVars,
                 clockVars, lastReminderBlinkMillis, reminderPulseActive,
                 reminderPulseEndMillis, notifyState, led, buzzer, now>>

\* onEnterPressed(): acknowledge, then displayInbox()
OnEnterPressed ==
  /\ pc # "setup"
  /\ newMessagePending' = FALSE
  /\ inboxCurrent' = DisplayInbox(inbox, inboxCount, inboxCurrent)
  /\ hist' = [hist EXCEPT !.browse = @ + 1, !.lastOp = "enter",
                           !.selBefore = inboxCurrent, !.ackPasses = 0,
                           !.moved = FALSE]
  /\ UNCHANGED <<inbox, inboxCount, inboxWriteIndex, inboxTotal, fsVars,
                 clockVars, lastReminderBlinkMillis, reminderPulseActive,
                 reminderPulseEndMillis, notifyState, led, buzzer, now>>

Pressed(b) == IF b THEN 1 ELSE 0

\* a faulty handleButtons for comparison: Enter does not acknowledge
HandleButtonsEnterNoAck(up, enter, down) ==
  /\ pc # "setup"
  /\ inboxCurrent' =
       IF down
         THEN InboxShowNext(inbox, inboxCount,
                IF enter
                  THEN DisplayInbox(inbox, inboxCount,
                         IF up THEN InboxShowPrev(inbox, inboxCount, inboxCurrent)
                         ELSE inboxCurrent)
                  ELSE IF up THEN InboxShowPrev(inbox, inboxCount, inboxCurrent)
                  ELSE inboxCurrent)
       ELSE IF enter
         THEN DisplayInbox(inbox, inboxCount,
                IF up THEN InboxShowPrev(inbox, inboxCount, inboxCurrent)
                ELSE inboxCurrent)
       ELSE IF up THEN InboxShowPrev(inbox, inboxCount, inboxCurrent)
       ELSE inboxCurrent
  /\ newMessagePending' = IF up \/ down THEN FALSE ELSE newMessagePending
  /\ hist' = IF up \/ enter \/ down
               THEN [hist EXCEPT
                       !.browse    = @ + Pressed(up) + Pressed(enter)
                                       + Pressed(down),
                       !.lastOp    = "buttons",
                       !.ackPasses = 0,
                       !.moved     = FALSE,
                       !.selBefore = inboxCurrent]
               ELSE hist
  /\ UNCHANGED <<inbox, inboxCount, inboxWriteIndex, inboxTotal, fsVars,
                 clockVars, lastReminderBlinkMillis, reminderPulseActive,
                 reminderPulseEndMillis, notifyState, led, buzzer, now>>

\* handleButtons(): processButton for Up, Enter and Down in this order, each
\* calling its handler if the button went down
HandleButtons(up, enter, down) ==
  /\ pc # "setup"
  /\ LET c1 == IF up THEN InboxShowPrev(inbox, inboxCount, inboxCurrent)
               ELSE inboxCurrent
         c2 == IF enter THEN DisplayInbox(inbox, inboxCount, c1) ELSE c1
         c3 == IF down THEN InboxShowNext(inbox, inboxCount, c2) ELSE c2
     IN  inboxCurrent' = c3
  /\ newMessagePending' = IF up \/ enter \/ down THEN FALSE
                          ELSE newMessagePending
  /\ hist' = IF up \/ enter \/ down
               THEN [hist EXCEPT
                       !.browse    = @ + Pressed(up) + Pressed(enter)
                                       + Pressed(down),
                       !.lastOp    = "buttons",
                       !.ackPasses = 0,
                       !.moved     = FALSE,
                       !.selBefore = inboxCurrent]
               ELSE hist
  /\ UNCHANGED <<inbox, inboxCount, inboxWriteIndex, inboxTotal, fsVars,
                 clockVars, lastReminderBlinkMillis, reminderPulseActive,
                 reminderPulseEndMillis, notifyState, led, buzzer, now>>

\* tickPagerClock()
TickPagerClock ==
  /\ pc # "setup"
  /\ IF pagerTime.valid
       THEN LET r == TickLoop(pagerTime, lastTimeUpdateMillis, now)
            IN  /\ pagerTime' = r.time
                /\ lastTimeUpdateMillis' = r.last
       ELSE UNCHANGED <<pagerTime, lastTimeUpdateMillis>>
  /\ hist' = [hist EXCEPT
       !.ticks = IF pagerTime.valid
                   THEN @ + TickCount(lastTimeUpdateMillis, now) ELSE @,
       !.fresh = TRUE]
  /\ UNCHANGED <<storeVars, fsVars, timeOffsetMinutes, remindVars, notifyState,
                 led, buzzer, now>>

\* handleNotify()
HandleNotify ==
  /\ pc # "setup"
  /\ IF NotifyDue(notifyState, now)
       THEN /\ notifyState' = NotifyStep(notifyState, now)
            /\ led' = NotifyLed(notifyState)
            /\ buzzer' = NotifyTone(notifyState)
            /\ hist' = [hist EXCEPT !.steps = @ + 1, !.due = TRUE,
                                     !.sinceStep = 0]
       ELSE /\ UNCHANGED <<notifyState, led, buzzer>>
            /\ hist' = [hist EXCEPT !.due = FALSE]
  /\ UNCHANGED <<storeVars, fsVars, clockVars, remindVars, now>>

\* a faulty handleNewMessageReminder for comparison: it does not stand back
\* while the player is active
HandleReminderNoPreempt ==
  /\ pc # "setup"
  /\ IF ~newMessagePending
       THEN /\ led' = IF ~notifyState.active /\ ~reminderPulseActive
                        THEN FALSE ELSE led
            /\ UNCHANGED <<lastReminderBlinkMillis, reminderPulseActive,
                           reminderPulseEndMillis>>
     ELSE IF reminderPulseActive
       THEN /\ IF UGeq(now, reminderPulseEndMillis)
                 THEN led' = FALSE /\ reminderPulseActive' = FALSE
                 ELSE UNCHANGED <<led, reminderPulseActive>>
            /\ UNCHANGED <<lastReminderBlinkMillis, reminderPulseEndMillis>>
     ELSE IF UGeq(USub(now, lastReminderBlinkMillis), U32(REMINDER_INTERVAL_MS))
       THEN /\ lastReminderBlinkMillis' = now
            /\ led' = TRUE
            /\ reminderPulseActive' = TRUE
            /\ reminderPulseEndMillis' = UAdd(now, REMINDER_PULSE_MS)
     ELSE UNCHANGED <<led, lastReminderBlinkMillis, reminderPulseActive,
                      reminderPulseEndMillis>>
  /\ hist' = [hist EXCEPT
       !.ackPasses  = IF ~newMessagePending /\ @ < 2 THEN @ + 1 ELSE @,
       !.sinceBlink = IF ~reminderPulseActive /\ reminderPulseActive'
                        THEN 0 ELSE @,
       !.sincePulse = IF ~reminderPulseActive /\ reminderPulseActive'
                        THEN 0 ELSE @]
  /\ UNCHANGED <<storeVars, fsVars, clockVars, newMessagePending, notifyState,
                 buzzer, now>>

\* handleNewMessageReminder()
HandleNewMessageReminder ==
  /\ pc # "setup"
  /\ IF ~newMessagePending
       THEN /\ led' = IF ~notifyState.active /\ ~reminderPulseActive
                        THEN FALSE ELSE led
            /\ UNCHANGED <<lastReminderBlinkMillis, reminderPulseActive,
                           reminderPulseEndMillis>>
     ELSE IF notifyState.active
       THEN UNCHANGED <<led, lastReminderBlinkMillis, reminderPulseActive,
                        reminderPulseEndMillis>>
     ELSE IF reminderPulseActive
       THEN /\ IF UGeq(now, reminderPulseEndMillis)
                 THEN led' = FALSE /\ reminderPulseActive' = FALSE
                 ELSE UNCHANGED <<led, reminderPulseActive>>
            /\ UNCHANGED <<lastReminderBlinkMillis, reminderPulseEndMillis>>
     ELSE IF UGeq(USub(now, lastReminderBlinkMillis), U32(REMINDER_INTERVAL_MS))
       THEN /\ lastReminderBlinkMillis' = now
            /\ led' = TRUE
            /\ reminderPulseActive' = TRUE
            /\ reminderPulseEndMillis' = UAdd(now, REMINDER_PULSE_MS)
     ELSE UNCHANGED <<led, lastReminderBlinkMillis, reminderPulseActive,
                      reminderPulseEndMillis>>
  /\ hist' = [hist EXCEPT
       !.ackPasses  = IF ~newMessagePending /\ @ < 2 THEN @ + 1 ELSE @,
       !.sinceBlink = IF ~reminderPulseActive /\ reminderPulseActive'
                        THEN 0 ELSE @,
       !.sincePulse = IF ~reminderPulseActive /\ reminderPulseActive'
                        THEN 0 ELSE @]
  /\ UNCHANGED <<storeVars, fsVars, clockVars, newMessagePending, notifyState,
                 buzzer, now>>

\* d milliseconds pass before the next loop() pass starts
Elapse(d, early, late) ==
  /\ pc = "elapse"
  /\ now' = UAdd(now, d)
  /\ hist' = [hist EXCEPT !.passes = @ + 1, !.short = @ + early,
                           !.long = @ + late, !.fresh = FALSE,
                           !.sinceBlink = @ + d, !.sincePulse = @ + d,
                           !.sinceStep = @ + d,
                           !.elapsed = IF pagerTime.valid THEN @ + d ELSE @]
  /\ UNCHANGED <<storeVars, fsVars, clockVars, remindVars, notifyState, led,
                 buzzer>>

----------------------------------------------------------------------------
(* The inbox specification: setup, then received messages and button      *)
(* presses in any order, with millis() standing still.                    *)

MaxInserts  == 65     \* storeMessage calls in a run
MaxBrowse   == 2      \* button presses between two messages
TimeWindow  == 1      \* time messages arrive before this many inserts
MaxTimeSets == 1      \* time messages in a run

\* the messages received for the RICs of the list, in their order of arrival
Messages ==
  << [addr |-> 8,    str |-> <<"a">>],
     [addr |-> 1040, str |-> <<"b", SP>>],
     [addr |-> 8,    str |-> <<"c", BAR, "d">>],
     [addr |-> 8,    str |-> <<"e", NL, "f">>],
     [addr |-> 1040, str |-> <<>>],
     [addr |-> 8,    str |-> <<"g", CR, NL>>],
     [addr |-> 8,    str |-> <<SP, "h">>] >>

NthMessage(k) == Messages[(k % Len(Messages)) + 1]

\* a DAPNET time message: the pattern, then YYMMDDHHMMSS
TimeText(yy, mm, dd, hh, mi, ss) ==
  TimePattern \o PadNum(yy, 2) \o PadNum(mm, 2) \o PadNum(dd, 2)
  \o PadNum(hh, 2) \o PadNum(mi, 2) \o PadNum(ss, 2)

\* what the uninitialised PagerTime of loadInboxFromFS may hold
JunkTimes == {NoTime,
              [year |-> 7, month |-> 7, day |-> 7, hour |-> 7, minute |-> 7,
               second |-> 7, valid |-> TRUE]}

\* /inbox.log as an earlier run left it
StoredFiles ==
  {[exists |-> FALSE, lines |-> <<>>],
   [exists |-> TRUE,
    lines  |-> << <<"8", BAR, "n", BAR, DASH, BAR, "x">>,
                  <<"1", "0", "4", "0", BAR, "d", "x", BAR>>
                    \o FormatTime([year |-> 2025, month |-> 12, day |-> 3,
                                   hour |-> 21, minute |-> 6, second |-> 0,
                                   valid |-> TRUE])
                    \o <<BAR, "y", SP, "z">> >>]}

InitRam ==
  /\ inbox = [i \in Slots |-> EmptyMessage]
  /\ inboxCount = 0
  /\ inboxWriteIndex = 0
  /\ inboxCurrent = 0
  /\ inboxTotal = 0
  /\ storageOk = FALSE
  /\ pagerTime = NoTime
  /\ lastTimeUpdateMillis = U32(0)
  /\ newMessagePending = FALSE
  /\ lastReminderBlinkMillis = U32(0)
  /\ reminderPulseActive = FALSE
  /\ reminderPulseEndMillis = U32(0)
  /\ notifyState = NotifyIdle
  /\ led = FALSE
  /\ buzzer = <<>>
  /\ pc = "setup"
  /\ hist = HistInit

Init ==
  /\ InitRam
  /\ file \in StoredFiles
  /\ timeOffsetMinutes = 60
  /\ now = U32(0)

BootStep ==
  \E mount \in {"ok", "formatted", "failed"}, junk \in JunkTimes :
    Setup(mount, TRUE, junk)

MessageStep ==
  /\ hist.inserts < MaxInserts
  /\ Receive(NthMessage(hist.inserts).addr, NthMessage(hist.inserts).str, TRUE)
  /\ UNCHANGED pc

TimeStep ==
  /\ hist.inserts < TimeWindow
  /\ hist.timeSets < MaxTimeSets
  /\ Receive(216, TimeText(25, 12, 3, 20, 6, 0), TRUE)
  /\ UNCHANGED pc

UpStep    == hist.browse < MaxBrowse /\ OnUpPressed /\ UNCHANGED pc
DownStep  == hist.browse < MaxBrowse /\ OnDownPressed /\ UNCHANGED pc
EnterStep == hist.browse < MaxBrowse /\ OnEnterPressed /\ UNCHANGED pc

Next ==
  \/ BootStep
  \/ MessageStep
  \/ TimeStep
  \/ UpStep
  \/ DownStep
  \/ EnterStep

Spec == Init /\ [][Next]_vars

----------------------------------------------------------------------------
(* Properties of the inbox *)

Min(a, b) == IF a < b THEN a ELSE b

\* distance from slot a forward to slot b in ring order, 0 .. INBOX_SIZE-1
RingDist(a, b) == (b - a) % INBOX_SIZE

\* the slots in the order the program takes for oldest to newest
RingOrdered(inb, wi, born) ==
  \A i, j \in ValidSlots(inb) :
    born[i] < born[j] <=> RingDist(wi, i) < RingDist(wi, j)

\* push number of the first storeMessage after the last reset
FirstInsert == hist.pushes - hist.nIns + 1

\* C1: from an empty store, after k inserts count() is k up to INBOX_SIZE and
\* INBOX_SIZE beyond, and once k > INBOX_SIZE the first record inserted is in
\* no valid slot.
C1_CountAfterInserts ==
  hist.nRest = 0 =>
    /\ inboxCount = Min(hist.nIns, INBOX_SIZE)
    /\ hist.nIns > INBOX_SIZE =>
         \A i \in ValidSlots(inbox) : hist.born[i] # FirstInsert

C1_Witness ==
  /\ hist.nRest = 0
  /\ hist.nIns > INBOX_SIZE
  /\ inboxCount = INBOX_SIZE

\* C2: inboxCount is the number of valid slots, within 0..INBOX_SIZE, and the
\* write index is within 0..INBOX_SIZE-1, whatever the order of setup (reset,
\* load, restore), inserts and selections.
C2_CountIsValidSlots ==
  /\ inboxCount = Cardinality(ValidSlots(inbox))
  /\ 0 <= inboxCount /\ inboxCount <= INBOX_SIZE
  /\ 0 <= inboxWriteIndex /\ inboxWriteIndex <= INBOX_SIZE - 1

C2_Witness ==
  /\ hist.nRest > 0
  /\ hist.nIns > INBOX_SIZE
  /\ hist.lastOp = "next"

\* C3: an insert into a full store overwrites the oldest record only, keeps
\* the other INBOX_SIZE-1 records and their order, and keeps the count.
C3_OverwriteOldest ==
  [][(inboxCount = INBOX_SIZE /\ hist'.inserts = hist.inserts + 1) =>
       LET oldest == CHOOSE i \in ValidSlots(inbox) :
                       \A j \in ValidSlots(inbox) : hist.born[i] <= hist.born[j]
       IN  /\ hist'.born[oldest] = hist.pushes + 1
           /\ \A i \in Slots \ {oldest} :
                inbox'[i] = inbox[i] /\ hist'.born[i] = hist.born[i]
           /\ inbox'[oldest].valid
           /\ RingOrdered(inbox', inboxWriteIndex', hist'.born)
           /\ inboxCount' = INBOX_SIZE]_vars

C3_Witness ==
  /\ hist.nIns > INBOX_SIZE
  /\ hist.lastOp = "insert"
  /\ inboxCount = INBOX_SIZE

\* what a reader of the store sees of the valid records, oldest to newest:
\* address, label, flattened text, and the time stamp where it is valid
RecordView(msg) ==
  [addr |-> msg.addr, ricName |-> msg.ricName, text |-> FlatText(msg.text),
   time |-> IF msg.time.valid THEN msg.time ELSE NoTime]

StoreView(inb, cnt, wi) ==
  IF ValidSlots(inb) = {} THEN <<>>
  ELSE [k \in 1..cnt |->
          RecordView(inb[(OldestIndex(inb, wi) + k - 1) % INBOX_SIZE])]

\* the store loadInboxFromFS builds from the file saveInboxToFS leaves
Reloaded(junk) ==
  LoadInboxFromFS(
    [inbox |-> [i \in Slots |-> EmptyMessage], count |-> 0, wi |-> 0], 0, 0,
    TRUE, TRUE,
    SaveInboxToFS(inbox, inboxCount, inboxWriteIndex, TRUE, TRUE, file), junk)

\* C4: load of the file save writes gives back the same records, oldest to
\* newest (address, label, flattened text, time stamp), and the same count.
C4_RoundTrip ==
  (storageOk /\ hist.lastOp \in {"insert", "setup"}) =>
    \A junk \in JunkTimes :
      /\ Reloaded(junk).count = inboxCount
      /\ StoreView(Reloaded(junk).inbox, Reloaded(junk).count, Reloaded(junk).wi)
           = StoreView(inbox, inboxCount, inboxWriteIndex)

\* C5: the position drawClockBar shows counts the valid records from the
\* oldest: the oldest record has position 1, the newest has position count.
C5_LogicalPosition ==
  (inboxCount > 0 /\ inboxCurrent \in ValidSlots(inbox)) =>
    LogicalPos(inbox, inboxCurrent) =
      1 + Cardinality({i \in ValidSlots(inbox) :
                         hist.born[i] < hist.born[inboxCurrent]})

\* C8: inboxShowNext then inboxShowPrev is back on the message it started
\* from, and neither changes the records, the count or the write index.
C8_NextThenPrev ==
  [][(hist'.browse = hist.browse + 1
      /\ hist'.lastOp \in {"next", "prev", "nextprev"}) =>
       /\ UNCHANGED <<inbox, inboxCount, inboxWriteIndex>>
       /\ (hist'.lastOp = "nextprev" /\ inboxCount >= 1) =>
            inboxCurrent' = hist.selBefore]_vars

C8_Witness ==
  /\ hist.lastOp = "nextprev"
  /\ inboxCount = INBOX_SIZE
  /\ inboxCurrent = hist.selBefore
  /\ inboxCurrent = INBOX_SIZE - 1

\* the first valid slot strictly after cur going forward (dir = 1) or
\* backward (dir = -1) around the ring is nxt
FirstValidFrom(inb, cur, nxt, dir) ==
  /\ inb[nxt].valid
  /\ LET d == ((dir * (nxt - cur) - 1) % INBOX_SIZE) + 1
     IN  \A k \in 1..(d - 1) : ~inb[(cur + dir * k) % INBOX_SIZE].valid

\* C9: inboxShowNext / inboxShowPrev select the first valid slot strictly
\* forward / backward in ring order; with an empty store the selection stays,
\* and with a single record it stays on that record.
C9_NearestValid ==
  [][(hist'.browse = hist.browse + 1
      /\ hist'.lastOp \in {"next", "prev", "nextprev"}) =>
       LET dir == IF hist'.lastOp = "next" THEN 1 ELSE -1
       IN  /\ ValidSlots(inbox) = {} => inboxCurrent' = inboxCurrent
           /\ ValidSlots(inbox) # {} =>
                FirstValidFrom(inbox, inboxCurrent, inboxCurrent', dir)
           /\ ValidSlots(inbox) = {inboxCurrent} =>
                inboxCurrent' = inboxCurrent]_vars

C9_Witness ==
  /\ hist.lastOp = "next"
  /\ inboxCount > 1 /\ inboxCount < INBOX_SIZE
  /\ inboxCurrent = 0
  /\ hist.selBefore = inboxCount - 1

\* C15: right after every storeMessage, inboxCurrent is the slot just written
\* (the write index before the call), which holds the message, wherever the
\* selection was before.
C15_InsertSelectsWritten ==
  [][(hist'.inserts = hist.inserts + 1) =>
       /\ inboxCurrent' = inboxWriteIndex
       /\ inbox'[inboxCurrent'].valid
       /\ inbox'[inboxCurrent'].text = NthMessage(hist.inserts).str
       /\ hist'.born[inboxCurrent'] = hist'.pushes]_vars

\* a message stored after two presses of Up had taken the selection two
\* records back from the newest
C15_Witness ==
  /\ hist.lastOp = "insert"
  /\ hist.moved
  /\ inboxCount = INBOX_SIZE
  /\ hist.inserts > INBOX_SIZE
  /\ inboxCurrent = (inboxWriteIndex - 1 + INBOX_SIZE) % INBOX_SIZE
  /\ hist.born[inboxCurrent] = hist.pushes

\* C16: whenever the inbox holds a record, inboxCurrent is a slot index and
\* the slot it names is valid, after setup with its load, storeMessage and
\* the three button handlers in any order.
C16_SelectionValid ==
  inboxCount > 0 =>
    /\ inboxCurrent \in 0..(INBOX_SIZE - 1)
    /\ inbox[inboxCurrent].valid

\* Enter pressed after Up, on an inbox of two restored records and one
\* inserted
C16_Witness ==
  /\ hist.lastOp = "enter"
  /\ hist.browse = 2
  /\ hist.nRest = 2
  /\ hist.nIns = 1
  /\ inboxCount = 3
  /\ inboxCurrent = 1
  /\ inbox[inboxCurrent].valid

\* the slot of the k-th record counted from the first valid slot found from
\* the write index on
SlotFrom(oldest, k) == (oldest + k - 1) % INBOX_SIZE

\* the file saveInboxToFS() would leave now, storage working
SavedNow == SaveInboxToFS(inbox, inboxCount, inboxWriteIndex, TRUE, TRUE, file)

\* C21: with storage available, saveInboxToFS leaves a file of exactly
\* inboxCount lines, one for each valid record, the oldest record first and
\* the newest last, starting at the first valid slot from the write index
\* on; for an empty inbox the file is empty.  The file storeMessage has
\* just left is that file.  (The button handlers leave the records, the
\* count and the write index alone, so the stores are those met right after
\* setup and after storeMessage.)
C21_SavedFile ==
  hist.lastOp \in {"none", "setup", "insert"} =>
  \A f \in {SavedNow}, oldest \in {OldestIndex(inbox, inboxWriteIndex)} :
    /\ f.exists
    /\ Len(f.lines) = inboxCount
    /\ \A k \in 1..inboxCount :
         /\ inbox[SlotFrom(oldest, k)].valid
         /\ <<f.lines[k]>> = RecordLines(inbox[SlotFrom(oldest, k)])
         /\ k < inboxCount =>
              hist.born[SlotFrom(oldest, k)] < hist.born[SlotFrom(oldest, k + 1)]
    /\ inboxCount = 0 => f.lines = <<>>
    /\ (hist.lastOp = "insert" /\ storageOk) => file = f

\* the 65th record stored: the file holds 64 lines, the second record
\* received first and the 65th last
C21_Witness ==
  /\ hist.lastOp = "insert"
  /\ storageOk
  /\ hist.nRest = 0
  /\ hist.inserts = INBOX_SIZE + 1
  /\ inboxWriteIndex = 1
  /\ Len(file.lines) = INBOX_SIZE
  /\ <<file.lines[1]>> = RecordLines(inbox[1])
  /\ <<file.lines[INBOX_SIZE]>> = RecordLines(inbox[0])

----------------------------------------------------------------------------
(* The loop specification: loop() pass after pass, each pass a sequence of *)
(* its calls, with millis() moving on between the passes.                  *)

PassMs      == 100     \* the usual time between two passes
ShortMs     == 40      \* a pass that comes early
LongMs      == 30000   \* a pass that comes late
MaxOdd      == 1       \* early or late passes in a run
MaxPasses   == 46      \* loop() passes in a run
RecvWindow  == 1       \* messages arrive within this many passes
MaxLoopMsgs == 1       \* messages in a run
MaxPresses  == 1       \* button presses after a message
WrapLead    == 2050    \* milliseconds from the late start to the 2^32 wrap
PulseLead   == 34175   \* the same for a start half a minute before the wrap

\* millis() when loop() starts: right after power-up, or, the pager having
\* idled for 49.7 days, shortly before the counter wraps
StartTimes == {U32(0), USub(U32(0), U32(WrapLead))}

\* the same with a start from which the player and one reminder interval end
\* just before the wrap
LoopStartTimes == StartTimes \cup {USub(U32(0), U32(PulseLead))}

InitLoop ==
  /\ InitRam
  /\ file = [exists |-> FALSE, lines |-> <<>>]
  /\ timeOffsetMinutes = 60
  /\ now \in LoopStartTimes

LoopSetup ==
  \E mount \in {"ok", "failed"} : Setup(mount, TRUE, NoTime)

LoopElapse ==
  \E d \in {PassMs, ShortMs, LongMs} :
    /\ hist.passes < MaxPasses
    /\ d # PassMs => hist.short + hist.long < MaxOdd
    /\ Elapse(d, IF d = ShortMs THEN 1 ELSE 0, IF d = LongMs THEN 1 ELSE 0)
    /\ pc' = "tick"

LoopClock ==
  /\ pc = "tick"
  /\ TickPagerClock
  /\ pc' = "buttons"

LoopButtons ==
  /\ pc = "buttons"
  /\ \E up, enter, down \in BOOLEAN :
       /\ hist.browse + Pressed(up) + Pressed(enter) + Pressed(down)
            <= MaxPresses
       /\ HandleButtons(up, enter, down)
  /\ pc' = "notify"

LoopNotify ==
  /\ pc = "notify"
  /\ HandleNotify
  /\ pc' = "reminder"

LoopReminder ==
  /\ pc = "reminder"
  /\ HandleNewMessageReminder
  /\ pc' = "radio"

LoopRadio ==
  /\ pc = "radio"
  /\ \/ UNCHANGED <<storeVars, fsVars, clockVars, remindVars, notifyState, led,
                    buzzer, now, hist>>
     \/ /\ hist.inserts < MaxLoopMsgs
        /\ hist.passes <= RecvWindow
        /\ Receive(NthMessage(hist.inserts).addr, NthMessage(hist.inserts).str,
                   TRUE)
  /\ pc' = "elapse"

NextLoop ==
  \/ LoopSetup
  \/ LoopElapse
  \/ LoopClock
  \/ LoopButtons
  \/ LoopNotify
  \/ LoopReminder
  \/ LoopRadio

SpecLoop == InitLoop /\ [][NextLoop]_vars

----------------------------------------------------------------------------
(* Properties of the notification player and the reminder *)

\* C6 as claimed: after ringBuzzer and exactly 40 due handleNotify calls the
\* player is idle and the LED is low.
C6_IdleAfter40 ==
  (hist.inserts > 0 /\ hist.steps = NOTIFY_LED_STEPS) =>
    (~notifyState.active /\ ~led)

\* C6 as the code has it: after exactly 40 due calls the LED is low and the
\* step index is 40, but the player is still active; the 41st due call makes
\* it idle and leaves the LED low.
C6_IdleAfter41 ==
  /\ (hist.inserts > 0 /\ hist.steps = NOTIFY_LED_STEPS) =>
       (notifyState.active /\ notifyState.step = NOTIFY_LED_STEPS /\ ~led)
  /\ (hist.inserts > 0 /\ hist.steps = NOTIFY_LED_STEPS + 1
      /\ hist.due /\ pc = "reminder") =>
       (~notifyState.active /\ ~led)
  /\ hist.steps <= NOTIFY_LED_STEPS + 1

C6_Witness ==
  /\ hist.inserts > 0
  /\ hist.steps = NOTIFY_LED_STEPS + 1
  /\ hist.due /\ pc = "reminder"
  /\ ~notifyState.active /\ ~led

\* C7: a button press having cleared newMessagePending, at the end of the
\* pass after the one of the press (the reminder has run twice since) and with
\* the player idle, the LED is low and no reminder pulse is active.
C7_AckEndsPulse ==
  (pc = "radio" /\ ~newMessagePending /\ ~notifyState.active
   /\ hist.ackPasses >= 2) =>
    (~led /\ ~reminderPulseActive)

\* C14: with newMessagePending set and the player idle, a reminder call
\* starts a pulse (LED high, pulse end 50 ms on) only when at least 30 s
\* have passed since the last pulse start or storeMessage, and during a pulse
\* the first call at or after the recorded pulse end drives the LED low and
\* ends the pulse, a call before it changes nothing.
C14_ReminderPulse ==
  [][(pc = "reminder" /\ pc' # "reminder" /\ newMessagePending
      /\ ~notifyState.active) =>
       /\ (~reminderPulseActive /\ reminderPulseActive') =>
            /\ hist.sinceBlink >= REMINDER_INTERVAL_MS
            /\ led'
            /\ reminderPulseEndMillis' = UAdd(now, REMINDER_PULSE_MS)
       /\ (reminderPulseActive /\ hist.sincePulse >= REMINDER_PULSE_MS) =>
            (~led' /\ ~reminderPulseActive')
       /\ (reminderPulseActive /\ hist.sincePulse < REMINDER_PULSE_MS) =>
            (led' = led /\ reminderPulseActive')]_vars

\* C23: while the player is active, a handleNotify call does something only
\* when at least 100 ms have passed since the last step or ringBuzzer; a
\* step at index below 40 writes the LED high for an even index and low for
\* an odd one, requests the tone of that index only below NOTENUMBER (the
\* length of a tone row) and adds exactly 1 to the index; the index stays
\* within 0..40.
C23_NotifySteps ==
  [][/\ notifyState.step \in 0..NOTIFY_LED_STEPS
     /\ notifyState'.step \in 0..NOTIFY_LED_STEPS
     /\ (pc = "notify" /\ pc' # "notify" /\ notifyState.active) =>
          /\ hist.sinceStep < NOTIFY_STEP_MS =>
               UNCHANGED <<notifyState, led, buzzer>>
          /\ (hist.sinceStep >= NOTIFY_STEP_MS
              /\ notifyState.step < NOTIFY_LED_STEPS) =>
               /\ led' = ((notifyState.step % 2) = 0)
               /\ buzzer' = IF notifyState.step < NOTENUMBER
                               THEN <<notifyState.ringToneChoice,
                                      notifyState.step>>
                               ELSE <<>>
               /\ notifyState'.step = notifyState.step + 1
               /\ notifyState'.active]_vars

\* the player at index 7, one call 40 ms after a step having done nothing:
\* the step of the even index 6 has set the LED high and requested no tone
C23_Witness ==
  /\ pc = "reminder"
  /\ notifyState.active
  /\ notifyState.step = NOTENUMBER + 1
  /\ hist.due
  /\ hist.short = 1
  /\ led
  /\ buzzer = <<>>

\* C25: a handleNewMessageReminder call made while the player is active and
\* newMessagePending is set writes no LED level and changes none of
\* reminderPulseActive, lastReminderBlinkMillis, reminderPulseEndMillis; and a
\* handleNotify call changes none of these three.
C25_ReminderStandsBack ==
  [][/\ (pc = "reminder" /\ pc' # "reminder" /\ notifyState.active
                         /\ newMessagePending) =>
          UNCHANGED <<led, reminderPulseActive, lastReminderBlinkMillis,
                      reminderPulseEndMillis>>
     /\ (pc = "notify" /\ pc' # "notify") =>
          UNCHANGED <<reminderPulseActive, lastReminderBlinkMillis,
                      reminderPulseEndMillis>>]_vars

\* the reminder has just been called with the player active, an unread
\* message and the interval over: no pulse was started
C25_Witness ==
  /\ pc = "radio"
  /\ notifyState.active
  /\ newMessagePending
  /\ hist.sinceBlink >= REMINDER_INTERVAL_MS
  /\ ~reminderPulseActive
  /\ UGeq(USub(now, lastReminderBlinkMillis), U32(REMINDER_INTERVAL_MS))

\* C28: once handleNotify and handleNewMessageReminder have run in a pass,
\* the LED is low whenever the player is idle and no reminder pulse is
\* active.
C28_LedOwned ==
  (pc = "radio" /\ ~notifyState.active /\ ~reminderPulseActive) => ~led

\* the end of the pass in which the player has gone idle after its 40 steps,
\* the last of them an odd one, with the message still unread and no pulse
C28_Witness ==
  /\ pc = "radio"
  /\ ~notifyState.active
  /\ ~reminderPulseActive
  /\ newMessagePending
  /\ hist.due
  /\ hist.steps = NOTIFY_LED_STEPS + 1
  /\ ~led

\* C18: newMessagePending is true exactly when storeMessage has run and no
\* button handler has run after it: every storeMessage sets it, every press
\* of Up, Down or Enter clears it, and nothing else in loop() changes it.
C18_PendingIffUnacked ==
  newMessagePending <=> (hist.inserts > 0 /\ hist.browse = 0)

\* a message acknowledged by a button press, the player and the reminder
\* having run since
C18_Witness ==
  /\ hist.inserts > 0
  /\ hist.lastOp = "buttons"
  /\ hist.browse > 0
  /\ hist.steps > 0
  /\ hist.ackPasses > 0
  /\ ~newMessagePending

----------------------------------------------------------------------------
(* The ring specification: loop() pass after pass, 100 ms apart, no button  *)
(* pressed, with messages arriving in the first passes, also while the     *)
(* player is still playing for the one before.                             *)

MaxRingMsgs   == 2      \* messages in a run
RingWindow    == 12     \* messages arrive in the first passes only
MaxRingPasses == 56     \* loop() passes in a run

InitRing ==
  /\ InitRam
  /\ file = [exists |-> FALSE, lines |-> <<>>]
  /\ timeOffsetMinutes = 60
  /\ now = U32(0)

RingSetup == Setup("ok", TRUE, NoTime)

RingElapse ==
  /\ hist.passes < MaxRingPasses
  /\ Elapse(PassMs, 0, 0)
  /\ pc' = "tick"

RingButtons ==
  /\ pc = "buttons"
  /\ HandleButtons(FALSE, FALSE, FALSE)
  /\ pc' = "notify"

RingRadio ==
  /\ pc = "radio"
  /\ \/ UNCHANGED <<storeVars, fsVars, clockVars, remindVars, notifyState, led,
                    buzzer, now, hist>>
     \/ /\ hist.inserts < MaxRingMsgs
        /\ hist.passes <= RingWindow
        /\ Receive(NthMessage(hist.inserts).addr, NthMessage(hist.inserts).str,
                   TRUE)
  /\ pc' = "elapse"

NextRing ==
  \/ RingSetup
  \/ RingElapse
  \/ LoopClock
  \/ RingButtons
  \/ LoopNotify
  \/ LoopReminder
  \/ RingRadio

SpecRing == InitRing /\ [][NextRing]_vars

----------------------------------------------------------------------------
(* Properties of a player triggered again *)

\* C24: ringBuzzer called while the player is active, at whatever index,
\* starts the pattern again: index 0, the new tone row, still active; and the
\* player goes idle only in a call that finds 40 steps done since the last
\* ringBuzzer.
C24_RetriggerRestarts ==
  [][/\ (hist'.inserts = hist.inserts + 1 /\ notifyState.active) =>
          notifyState' =
            [active |-> TRUE, lastStepMillis |-> now, step |-> 0,
             ringToneChoice |-> RicOf(NthMessage(hist.inserts).addr).ringtype]
     /\ (notifyState.active /\ ~notifyState'.active) =>
          /\ hist.steps = NOTIFY_LED_STEPS
          /\ notifyState.step = NOTIFY_LED_STEPS]_vars

\* two messages and the player idle again before pass 83: the second message
\* came while the player was playing for the first, and its tone row was used
C24_Witness ==
  /\ hist.inserts = 2
  /\ ~notifyState.active
  /\ hist.steps = NOTIFY_LED_STEPS + 1
  /\ notifyState.ringToneChoice = 1
  /\ hist.passes < 2 * (NOTIFY_LED_STEPS + 1)

----------------------------------------------------------------------------
(* The clock specification: setup, then DAPNET time messages for any       *)
(* configured offset.                                                      *)

MaxClockSets == 1     \* messages to the time RICs in a run

\* values of timeOffsetMinutes: west and east of UTC, more than a day, more
\* than a month
Offsets == {-44700, -1500, -720, -120, -60, -1, 0, 1, 60, 120, 840, 1500, 44700}

\* month and day of the UTC values sent: the ends of months and of the year
UtcDates == {<<1, 1>>, <<1, 31>>, <<2, 28>>, <<3, 1>>, <<4, 30>>, <<12, 3>>,
             <<12, 31>>}

\* the time messages sent, to RIC 216 or RIC 224
UtcMessages ==
  {[addr |-> IF yy = 25 THEN 224 ELSE 216,
    str  |-> TimeText(yy, md[1], md[2], hh, mi, IF mi = 59 THEN 59 ELSE 0)] :
     yy \in {0, 25, 99}, md \in UtcDates, hh \in {0, 20, 23}, mi \in {6, 59}}

\* a message to a time RIC without the 12 digits
ShortTimeMessage ==
  [addr |-> 216, str |-> TimePattern \o <<"2", "5", "1", "2">>]

InitClock ==
  /\ InitRam
  /\ file = [exists |-> FALSE, lines |-> <<>>]
  /\ timeOffsetMinutes \in Offsets
  /\ now = U32(0)

ClockSetup ==
  \E mount \in {"ok", "failed"} : Setup(mount, TRUE, NoTime)

ClockSet ==
  /\ hist.timeSets + hist.drops < MaxClockSets
  /\ \E m \in UtcMessages \cup {ShortTimeMessage} :
       Receive(m.addr, m.str, TRUE)
  /\ UNCHANGED pc

NextClock ==
  \/ ClockSetup
  \/ ClockSet

SpecClock == InitClock /\ [][NextClock]_vars

----------------------------------------------------------------------------
(* Properties of the clock *)

\* days of the year before the first of each month, 365-day years
DaysBefore == <<0, 31, 59, 90, 120, 151, 181, 212, 243, 273, 304, 334>>

\* days of each month, February with 28
MonthLength == <<31, 28, 31, 30, 31, 30, 31, 31, 30, 31, 30, 31>>

\* t is a time of the calendar with the fixed month lengths
CalendarTime(t) ==
  /\ t.month \in 1..12
  /\ t.day \in 1..MonthLength[t.month]
  /\ t.hour \in 0..23
  /\ t.minute \in 0..59
  /\ t.second \in 0..59

\* minutes from 1999-01-01 00:00 to t in that calendar
MinuteOf(t) ==
  (((t.year - 1999) * 365 + DaysBefore[t.month] + t.day - 1) * 24 + t.hour) * 60
  + t.minute

Utc2025 == [year |-> 2025, month |-> 12, day |-> 3, hour |-> 20, minute |-> 6,
            second |-> 0, valid |-> TRUE]

\* C10: after a time message the clock is valid and holds the UTC value plus
\* timeOffsetMinutes, carried or borrowed through hour, day, month and year
\* with February at 28 days, the seconds as sent; 2025-12-03 20:06:00 gives
\* 21:06:00 of that day with offset 60 and 22:06:00 with offset 120.
C10_LocalTime ==
  (hist.lastOp = "time" /\ CalendarTime(hist.utc)) =>
    /\ pagerTime.valid
    /\ CalendarTime(pagerTime)
    /\ MinuteOf(pagerTime) = MinuteOf(hist.utc) + timeOffsetMinutes
    /\ pagerTime.second = hist.utc.second
    /\ (hist.utc = Utc2025 /\ timeOffsetMinutes = 60) =>
         pagerTime = [Utc2025 EXCEPT !.hour = 21]
    /\ (hist.utc = Utc2025 /\ timeOffsetMinutes = 120) =>
         pagerTime = [Utc2025 EXCEPT !.hour = 22]

C10_Witness ==
  /\ hist.lastOp = "time"
  /\ hist.utc = [year |-> 2099, month |-> 12, day |-> 31, hour |-> 23,
                 minute |-> 59, second |-> 59, valid |-> TRUE]
  /\ timeOffsetMinutes = 1
  /\ pagerTime = [year |-> 2100, month |-> 1, day |-> 1, hour |-> 0,
                  minute |-> 0, second |-> 59, valid |-> TRUE]

----------------------------------------------------------------------------
(* The tick specification: setup, a DAPNET time message, then             *)
(* tickPagerClock() called after any of the gaps, also after several.     *)

MaxTickSets   == 1     \* time messages in a run
MaxTickPasses == 3     \* gaps in a run

\* milliseconds between two instants of a run
TickGaps == {400, 1000, 2600}

\* month and day of the UTC values sent: the last day of every month
MonthEnds == {<<1, 31>>, <<2, 28>>, <<3, 31>>, <<4, 30>>, <<5, 31>>, <<6, 30>>,
              <<7, 31>>, <<8, 31>>, <<9, 30>>, <<10, 31>>, <<11, 30>>,
              <<12, 31>>}

\* the time messages sent: 22:59:59 UTC on these days, which is the last
\* second of the day with the offset of one hour, the last second of a day
\* and of an hour inside a month, and a seconds field out of range
TickMessages ==
  {[addr |-> 216, str |-> TimeText(25, md[1], md[2], 22, 59, 59)] :
     md \in MonthEnds}
  \cup {[addr |-> 224, str |-> TimeText(25, 4, 29, 22, 59, 59)],
        [addr |-> 224, str |-> TimeText(25, 12, 3, 20, 59, 59)],
        [addr |-> 224, str |-> TimeText(25, 12, 3, 20, 6, 75)]}

InitTick ==
  /\ InitRam
  /\ file = [exists |-> FALSE, lines |-> <<>>]
  /\ timeOffsetMinutes = 60
  /\ now \in StartTimes

TickSetup == Setup("ok", TRUE, NoTime)

TickSet ==
  /\ hist.timeSets < MaxTickSets
  /\ \E m \in TickMessages : Receive(m.addr, m.str, TRUE)
  /\ UNCHANGED pc

TickElapse ==
  /\ hist.passes < MaxTickPasses
  /\ \E d \in TickGaps : Elapse(d, 0, 0)
  /\ UNCHANGED pc

TickCall ==
  /\ TickPagerClock
  /\ UNCHANGED pc

NextTick ==
  \/ TickSetup
  \/ TickSet
  \/ TickElapse
  \/ TickCall

SpecTick == InitTick /\ [][NextTick]_vars

----------------------------------------------------------------------------
(* Properties of the ticking clock *)

\* seconds from 2025-01-01 00:00:00 to t in the calendar with the fixed month
\* lengths
SecondOf(t) ==
  ((((t.year - 2025) * 365 + DaysBefore[t.month] + t.day - 1) * 24 + t.hour)
     * 60 + t.minute) * 60 + t.second

\* C11: on a valid clock, whenever tickPagerClock has run and no time has
\* passed since, the seconds it added since the last time message are the
\* whole seconds of uptime passed since that message, however the calls were
\* spread; the clock then shows the time set plus that many seconds.
C11_TicksAreElapsedSeconds ==
  (pagerTime.valid /\ hist.fresh) =>
    /\ hist.ticks = hist.elapsed \div 1000
    /\ CalendarTime(hist.setTime) =>
         /\ CalendarTime(pagerTime)
         /\ SecondOf(pagerTime) = SecondOf(hist.setTime) + hist.ticks

\* three gaps of 400 ms, 2600 ms and 400 ms with a call after each: the third
\* call adds the third second from the carried remainders, across the wrap of
\* millis()
C11_Witness ==
  /\ pagerTime.valid
  /\ hist.fresh
  /\ hist.elapsed = 3400
  /\ hist.ticks = 3
  /\ hist.passes = 3
  /\ now = UAdd(USub(U32(0), U32(WrapLead)), 3400)
  /\ now.hi = 0
  /\ lastTimeUpdateMillis = USub(now, U32(400))

\* t is the last second of the last day of a month
MonthEnd(t) ==
  /\ t.month \in 1..12
  /\ t.day = MonthLength[t.month]
  /\ t.hour = 23
  /\ t.minute = 59
  /\ t.second = 59

April30 == [year |-> 2025, month |-> 4, day |-> 30, hour |-> 23, minute |-> 59,
            second |-> 59, valid |-> TRUE]

\* C12: one second ticked onto 23:59:59 of the last day of a month (28 days
\* for February, 30 for April, June, September and November, 31 otherwise)
\* gives 00:00:00 of day 1 of the next month, of January of the next year
\* after December; 2025-04-30 23:59:59 gives 2025-05-01 00:00:00.
C12_MonthRollover ==
  (pagerTime.valid /\ hist.fresh /\ hist.ticks = 1 /\ MonthEnd(hist.setTime)) =>
    /\ pagerTime =
         [year   |-> IF hist.setTime.month = 12 THEN hist.setTime.year + 1
                     ELSE hist.setTime.year,
          month  |-> IF hist.setTime.month = 12 THEN 1
                     ELSE hist.setTime.month + 1,
          day |-> 1, hour |-> 0, minute |-> 0, second |-> 0, valid |-> TRUE]
    /\ hist.setTime = April30 =>
         pagerTime = [April30 EXCEPT !.month = 5, !.day = 1, !.hour = 0,
                                     !.minute = 0, !.second = 0]

C12_Witness ==
  /\ hist.fresh
  /\ hist.ticks = 1
  /\ hist.setTime = [April30 EXCEPT !.month = 12, !.day = 31]
  /\ pagerTime = [year |-> 2026, month |-> 1, day |-> 1, hour |-> 0,
                  minute |-> 0, second |-> 0, valid |-> TRUE]

----------------------------------------------------------------------------
(* The storage specification: setup over any of a set of inbox files, well *)
(* formed or not, then received messages with LittleFS.open failing or not. *)

MaxFileLines    == 3     \* lines of the short inbox files
MaxStoreInserts == 3     \* storeMessage calls in a run

\* lines of an inbox file: two well-formed ones (without and with a time
\* stamp), one whose text holds the delimiter, and lines with one delimiter,
\* with two, and with white space only
GoodLine  == <<"8", BAR, "n", BAR, DASH, BAR, "x">>
TimedLine == <<"1", "0", "4", "0", BAR, "d", "x", BAR, "2", "0", "2", "5", "1",
               "2", "0", "3", "2", "1", "0", "6", "0", "0", BAR, "y", SP, "z">>
BarLine   == <<"8", BAR, "n", BAR, DASH, BAR, "c", BAR, "d">>
OneBar    == <<"8", BAR, "n">>
TwoBars   == <<"8", BAR, "n", BAR, DASH>>
BlankLine == <<SP, CR>>

FileLines == {GoodLine, TimedLine, BarLine, OneBar, TwoBars, BlankLine}

\* a file with more well-formed lines than the inbox has slots, the third
\* line malformed
LongLines ==
  [k \in 1..(INBOX_SIZE + 2) |->
     IF k = 3 THEN OneBar ELSE PrintNum(k) \o <<BAR, "n", BAR, DASH, BAR, "x">>]

\* /inbox.log as an earlier run, or anything else, left it
StoreFiles ==
  {[exists |-> FALSE, lines |-> <<>>], [exists |-> TRUE, lines |-> LongLines]}
  \cup {[exists |-> TRUE, lines |-> l] :
          l \in UNION {[1..n -> FileLines] : n \in 0..MaxFileLines}}

\* the messages received, in their order of arrival
StoreMessages ==
  << [addr |-> 8,    str |-> <<"c", BAR, "d">>],
     [addr |-> 1040, str |-> <<BAR>>],
     [addr |-> 8,    str |-> <<"a", BAR, BAR, "b", BAR>>],
     [addr |-> 1040, str |-> <<"e">>] >>

InitStore ==
  /\ InitRam
  /\ file \in StoreFiles
  /\ timeOffsetMinutes = 60
  /\ now = U32(0)

StoreSetup ==
  \E mount \in {"ok", "formatted", "failed"}, openOk \in BOOLEAN,
     junk \in JunkTimes :
    Setup(mount, openOk, junk)

StoreInsert ==
  /\ hist.inserts < MaxStoreInserts
  /\ \E openOk \in BOOLEAN :
       Receive(StoreMessages[(hist.inserts % Len(StoreMessages)) + 1].addr,
               StoreMessages[(hist.inserts % Len(StoreMessages)) + 1].str,
               openOk)
  /\ UNCHANGED pc

NextStore ==
  \/ StoreSetup
  \/ StoreInsert

SpecStore == InitStore /\ [][NextStore]_vars

----------------------------------------------------------------------------
(* Properties of load and save *)

\* the number of field delimiters in a line
BarCount(line) == Cardinality({k \in 1..Len(line) : line[k] = BAR})

\* the number of lines with at least three field delimiters
WellFormedLines(lines) ==
  Cardinality({i \in 1..Len(lines) : BarCount(lines[i]) >= 3})

\* C13: loadInboxFromFS skips every line with fewer than three delimiters
\* and goes on with the lines after it: inboxCount after the load is the
\* number of well-formed lines, at most INBOX_SIZE; one well-formed line and
\* one line with one delimiter give inboxCount = 1 in either order.
C13_LoadSkipsMalformed ==
  (hist.lastOp = "setup" /\ storageOk /\ file.exists /\ hist.openFails = 0) =>
    /\ inboxCount = Min(WellFormedLines(file.lines), INBOX_SIZE)
    /\ file.lines \in {<<GoodLine, OneBar>>, <<OneBar, GoodLine>>} =>
         inboxCount = 1

C13_Witness ==
  /\ hist.lastOp = "setup"
  /\ storageOk
  /\ hist.openFails = 0
  /\ file.lines = <<OneBar, GoodLine>>
  /\ inboxCount = 1
  /\ inbox[0].valid
  /\ inbox[0].text = <<"x">>

\* the lines with at least three field delimiters, in file order
WellFormedSeq(lines) == SelectSeq(lines, LAMBDA l : BarCount(l) >= 3)

\* C22: after the load of a file with M >= 1 well-formed lines the inbox
\* holds the first min(M, INBOX_SIZE) of them in file order, from slot 0 on
\* (each slot prints as its line), and inboxCurrent is the slot of the last
\* one loaded, also when the write index has wrapped to 0.
C22_LoadOrder ==
  (hist.lastOp = "setup" /\ storageOk /\ file.exists /\ hist.openFails = 0
   /\ WellFormedLines(file.lines) >= 1) =>
    \A good \in {WellFormedSeq(file.lines)} :
      /\ inboxCount = Min(Len(good), INBOX_SIZE)
      /\ inboxWriteIndex = inboxCount % INBOX_SIZE
      /\ inboxCurrent = inboxCount - 1
      /\ \A k \in 1..inboxCount :
           /\ inbox[k - 1].valid
           /\ RecordLines(inbox[k - 1]) = <<good[k]>>
      /\ \A i \in inboxCount..(INBOX_SIZE - 1) : ~inbox[i].valid

\* the file of 66 lines, 65 of them well-formed: the inbox is full, the
\* write index back at 0, the selection on slot 63 with the 64th of them
C22_Witness ==
  /\ hist.lastOp = "setup"
  /\ storageOk
  /\ hist.openFails = 0
  /\ file.lines = LongLines
  /\ inboxCount = INBOX_SIZE
  /\ inboxWriteIndex = 0
  /\ inboxCurrent = INBOX_SIZE - 1
  /\ inbox[inboxCurrent].addr = INBOX_SIZE + 1


\* the message the next storeMessage call of this specification stores
NextStored == StoreMessages[(hist.inserts % Len(StoreMessages)) + 1]

\* C17: with storage unavailable (storageInit failed, or the inbox file
\* cannot be opened for writing) saveInboxToFS changes nothing, and every
\* storeMessage makes the same change in RAM whether storage is available or
\* not: the slot at the write index holds the message, the write index
\* advances, inboxCount grows up to INBOX_SIZE, inboxCurrent is that slot and
\* newMessagePending is set.
C17_InsertWithoutStorage ==
  [][(hist'.inserts = hist.inserts + 1) =>
       /\ inbox' = [inbox EXCEPT ![inboxWriteIndex] =
                      [addr    |-> NextStored.addr,
                       ricName |-> RicOf(NextStored.addr).name,
                       text    |-> NextStored.str,
                       time    |-> IF pagerTime.valid THEN pagerTime ELSE NoTime,
                       valid   |-> TRUE]]
       /\ inboxWriteIndex' = (inboxWriteIndex + 1) % INBOX_SIZE
       /\ inboxCount' = Min(inboxCount + 1, INBOX_SIZE)
       /\ inboxCurrent' = inboxWriteIndex
       /\ newMessagePending'
       /\ (~storageOk \/ hist'.openFails = hist.openFails + 1) =>
            file' = file]_vars

\* a message stored while the file could not be opened for writing: storage
\* is mounted, the file kept its two lines, the inbox holds three records
C17_Witness ==
  /\ hist.lastOp = "insert"
  /\ storageOk
  /\ hist.openFails = 1
  /\ hist.nRest = 2
  /\ inboxCount = 3
  /\ inboxCurrent = 2
  /\ inbox[2].text = <<"c", BAR, "d">>
  /\ newMessagePending
  /\ file.lines = <<GoodLine, TimedLine>>

\* the records, oldest to newest, loadInboxFromFS would read back now
ReloadedView(junk) ==
  StoreView(Reloaded(junk).inbox, Reloaded(junk).count, Reloaded(junk).wi)

\* the positions, oldest to newest, of the records whose text holds '|'
BarRecords ==
  {k \in 1..inboxCount :
     \E j \in 1..Len(StoreView(inbox, inboxCount, inboxWriteIndex)[k].text) :
       StoreView(inbox, inboxCount, inboxWriteIndex)[k].text[j] = BAR}

RestoreSamples ==
  {ParseLine(l, j).msg : l \in {GoodLine, TimedLine, BarLine}, j \in JunkTimes}

\* restorePushMessage(msg) and storeMessage of the same address, label and
\* text leave the same write index and count and write the same slot, the
\* time stamp apart, which is the one of msg
RestoreLikeInsert(msg) ==
  /\ RestorePushMessage(
       [inbox |-> inbox, count |-> inboxCount, wi |-> inboxWriteIndex], msg).wi
       = StoreMessage(inbox, inboxCount, inboxWriteIndex, pagerTime, msg.addr,
                      msg.ricName, msg.text).wi
  /\ RestorePushMessage(
       [inbox |-> inbox, count |-> inboxCount, wi |-> inboxWriteIndex], msg).count
       = StoreMessage(inbox, inboxCount, inboxWriteIndex, pagerTime, msg.addr,
                      msg.ricName, msg.text).count
  /\ RestorePushMessage(
       [inbox |-> inbox, count |-> inboxCount, wi |-> inboxWriteIndex], msg).inbox
       = [StoreMessage(inbox, inboxCount, inboxWriteIndex, pagerTime, msg.addr,
                       msg.ricName, msg.text).inbox
            EXCEPT ![inboxWriteIndex].time = msg.time]

\* C20: restorePushMessage writes the slot, advances the write index and
\* counts as storeMessage does, but keeps the time stamp of the record it is
\* given; the load that calls it leaves the inbox file, newMessagePending,
\* the reminder timer and notifyState as they were.
C20_RestoreFrame ==
  [][/\ \A msg \in RestoreSamples : RestoreLikeInsert(msg)
     /\ (pc = "setup" /\ pc' # "setup") =>
          /\ UNCHANGED <<newMessagePending, lastReminderBlinkMillis,
                         reminderPulseActive, reminderPulseEndMillis,
                         notifyState>>
          /\ file'.exists => file' = file]_vars

\* two records restored, the second with the time stamp of its line, while
\* the clock is not set and nothing is pending
C20_Witness ==
  /\ hist.lastOp = "setup"
  /\ hist.nRest = 2
  /\ inboxCount = 2
  /\ inboxWriteIndex = 2
  /\ file.lines = <<GoodLine, TimedLine>>
  /\ ~inbox[0].time.valid
  /\ inbox[1].time = [year |-> 2025, month |-> 12, day |-> 3, hour |-> 21,
                      minute |-> 6, second |-> 0, valid |-> TRUE]
  /\ ~pagerTime.valid
  /\ ~newMessagePending
  /\ ~notifyState.active

----------------------------------------------------------------------------
(* The calendar specification: setup, then time messages for several      *)
(* offsets, messages for the RICs of the list and tickPagerClock() calls  *)
(* in any order.                                                          *)

MaxCalSets   == 2     \* messages to the time RICs in a run
MaxCalPasses == 2     \* gaps in a run

\* milliseconds between two tickPagerClock() calls
CalGaps == {1000, 2000}

\* values of timeOffsetMinutes
CalOffsets == {-44700, -1, 60, 1500}

\* the first time message of a run: seconds before the end of a minute, a
\* day, a month, a year; the start of a month; a value that is no time of
\* the calendar; a message without the 12 digits
CalMessages ==
  {[addr |-> 216, str |-> TimeText(25, 3, 1, 0, 0, 59)],
   [addr |-> 216, str |-> TimeText(25, 2, 28, 23, 59, 58)],
   [addr |-> 216, str |-> TimeText(25, 4, 30, 12, 0, 59)],
   [addr |-> 224, str |-> TimeText(25, 12, 31, 23, 59, 59)],
   [addr |-> 224, str |-> TimeText(99, 12, 31, 23, 59, 59)],
   [addr |-> 224, str |-> TimeText(25, 12, 3, 20, 6, 75)],
   ShortTimeMessage}

\* the messages received for the RICs of the list, in their order of arrival
CalInserts == <<NthMessage(0), NthMessage(1)>>

\* the time message of every later time set
CalResync == [addr |-> 216, str |-> TimeText(25, 12, 3, 20, 6, 0)]

InitCal ==
  /\ InitRam
  /\ file = [exists |-> FALSE, lines |-> <<>>]
  /\ timeOffsetMinutes \in CalOffsets
  /\ now = U32(0)

CalSetup == Setup("ok", TRUE, NoTime)

CalSet ==
  /\ hist.timeSets + hist.drops < MaxCalSets
  /\ \E m \in IF hist.timeSets = 0 THEN CalMessages ELSE {CalResync} :
       Receive(m.addr, m.str, TRUE)
  /\ UNCHANGED pc

CalInsert ==
  /\ hist.inserts < Len(CalInserts)
  /\ Receive(CalInserts[hist.inserts + 1].addr, CalInserts[hist.inserts + 1].str,
             TRUE)
  /\ UNCHANGED pc

CalElapse ==
  /\ hist.passes < MaxCalPasses
  /\ \E d \in CalGaps : Elapse(d, 0, 0)
  /\ UNCHANGED pc

CalCall ==
  /\ TickPagerClock
  /\ UNCHANGED pc

NextCal ==
  \/ CalSetup
  \/ CalSet
  \/ CalInsert
  \/ CalElapse
  \/ CalCall

SpecCal == InitCal /\ [][NextCal]_vars

----------------------------------------------------------------------------
(* Properties of the calendar and of the time stamps *)

\* C26: once a time message with a time of the calendar has set the clock,
\* whatever the offset, the clock shows a time of the calendar after the
\* message and after every tickPagerClock() call: month 1..12, day 1..length
\* of the month, hour 0..23, minute 0..59, second 0..59.
C26_ClockInCalendar ==
  (pagerTime.valid /\ CalendarTime(hist.utc)) => CalendarTime(pagerTime)

\* 2025-03-01 00:00:59 UTC with offset -1 gave 2025-02-28 23:59:59, borrowed
\* through hour, day and month; one second on the clock shows 2025-03-01
C26_Witness ==
  /\ timeOffsetMinutes = -1
  /\ hist.utc = [year |-> 2025, month |-> 3, day |-> 1, hour |-> 0,
                 minute |-> 0, second |-> 59, valid |-> TRUE]
  /\ hist.setTime = [year |-> 2025, month |-> 2, day |-> 28, hour |-> 23,
                     minute |-> 59, second |-> 59, valid |-> TRUE]
  /\ hist.ticks = 1
  /\ pagerTime = [year |-> 2025, month |-> 3, day |-> 1, hour |-> 0,
                  minute |-> 0, second |-> 0, valid |-> TRUE]

\* C27: before the first time message is taken the clock is invalid, whatever
\* tickPagerClock() calls were made, and storeMessage stores an invalid
\* time; with the clock valid storeMessage stores the value the clock holds
\* at that call; and no tickPagerClock() call or time message changes a
\* stored record.
C27_StampAtInsert ==
  [][/\ hist.timeSets = 0 => ~pagerTime.valid
     /\ IF hist'.inserts = hist.inserts + 1
          THEN /\ inbox'[inboxWriteIndex].time =
                    IF hist.timeSets = 0 THEN NoTime ELSE pagerTime
               /\ hist.timeSets = 0 => ~inbox'[inboxWriteIndex].time.valid
               /\ hist.timeSets > 0 => inbox'[inboxWriteIndex].time.valid
               /\ \A i \in 0..(INBOX_SIZE - 1) :
                    i # inboxWriteIndex => inbox'[i] = inbox[i]
          ELSE pc # "setup" => inbox' = inbox]_vars

\* a message stored before the first time message and one stored after it,
\* then a second on the clock: the first record has no time, the second
\* still has the time of its insert, one second behind the clock
C27_Witness ==
  /\ hist.inserts = 2
  /\ hist.timeSets > 0
  /\ ~inbox[0].time.valid
  /\ inbox[1].time.valid
  /\ inbox[1].time = hist.setTime
  /\ hist.ticks = 1
  /\ pagerTime = TickSecond(inbox[1].time)
  /\ pagerTime # inbox[1].time

====
